---- MODULE Spec2Model ----
(***************************************************************************)
(* Model of the hodl-or-fold backend: the D1 tables (players, guesses,     *)
(* price_feed), the request handlers of the Worker and the price fetcher.  *)
(*                                                                         *)
(* Every `await env.DB...` of a handler is one atomic database statement;  *)
(* the synchronous code that follows it up to the next await belongs to    *)
(* the same step.  Requests of different Worker invocations interleave     *)
(* between their statements.                                               *)
(*                                                                         *)
(* Prices are integers in mills (1/1000 USD), so that a raw source price   *)
(* may differ from the stored one below one cent.  Time is in whole        *)
(* seconds (datetime('now') has second resolution).  A nullable column or  *)
(* response field is <<>> (null) or <<v>>.                                 *)
(*                                                                         *)
(* header is the x-api-secret header of the request that the last step let *)
(* in or turned away where the auth gate is followed, and null elsewhere:  *)
(* the other specifications follow requests that carry the secret.         *)
(*                                                                         *)
(* cron is the position of the scheduled run of the price fetcher where    *)
(* its loop is followed; elsewhere an iteration of the loop is one step.   *)
(*                                                                         *)
(* client is the game store of one browser page (stores/game.ts) with the  *)
(* page's own guards; its clock is in milliseconds, and the answers of the *)
(* backend to its requests are drawn from the shapes of the responses.     *)
(***************************************************************************)
EXTENDS Integers, Sequences, FiniteSets, TLC

VARIABLES players, guesses, price_feed, now, req, resp, lastView, written, header, cron, client

vars == <<players, guesses, price_feed, now, req, resp, lastView, written, header, cron, client>>

db == <<players, guesses, price_feed>>

\* ---------------------------------------------------------------- bounds
\* how many seconds past the end of a round the clock is followed
MaxLate == 2

\* how many rounds the clock is followed when it moves a round at a time
MaxRounds == 2

\* how many days the clock is followed when it moves between the ends of days
MaxDays == 1

Players == {"p1", "p2"}

Procs == {"r1", "r2"}

Directions == {"up", "down"}

\* raw source prices in mills: 0.004, 100.00, 100.004, 100.01 USD
RawPrices == {4, 100000, 100004, 100010}

\* with a price below, for the runs that follow a single guess
WidePrices == RawPrices \cup {99990}

\* the two prices of the runs that follow the history of the already-resolved branch
TwoPrices == {100000, 100010}

\* the ids of the guess rows that may be created
GuessIds == {1, 2}

\* how many guesses the page submits or restores
MaxSubmits == 2

\* how many guess-status requests for one guess are in flight at once
MaxPolls == 2

ClientGuessIds == 1 .. MaxSubmits

\* the instants of the clock of the browser, in milliseconds
ClientInstants == {0, 500, 59500, 60000, 60500, 120500}

\* env.MAX_PLAYERS as configured for the model
MAX_PLAYERS == 1

\* ------------------------------------------------------ program constants
ROUND_SECONDS == 60

ACTIVE_WINDOW_HOURS == 24

SECONDS_PER_DAY == 86400

\* the instants at which the clock is observed: the start, and around the end of a round
Instants == {0} \cup {ROUND_SECONDS - 1 + j : j \in 0 .. MaxLate}

\* the instants of a clock that moves a round at a time
RoundInstants == {k * ROUND_SECONDS : k \in 0 .. MaxRounds}

\* the instants of a clock that moves between the last second of a day and the next midnight
DayInstants == {0} \cup UNION {{d * SECONDS_PER_DAY - 1, d * SECONDS_PER_DAY} : d \in 1 .. MaxDays}

\* ------------------------------------------------------------ null values
Null == <<>>

Some(v) == <<v>>

\* --------------------------------------------------------------- db/price
\* variant: the price is kept as the source gave it
roundPrice_raw(usd) == usd

\* Math.round(usd * 100) / 100 on a price in mills (round half up to a cent)
roundPrice(usd) == ((usd + 5) \div 10) * 10

\* variant: a zero price is served as a sample
getPriceFromDb_zero ==
  [isNull |-> FALSE, usd |-> roundPrice(price_feed.usd), ts |-> price_feed.ts]

\* the single row of price_feed; getPriceFromDb answers null for usd = 0
getPriceFromDb ==
  IF price_feed.usd = 0
    THEN [isNull |-> TRUE, usd |-> 0, ts |-> price_feed.ts]
    ELSE [isNull |-> FALSE, usd |-> roundPrice(price_feed.usd), ts |-> price_feed.ts]

setPriceInDb(usd, ts) == price_feed' = [usd |-> roundPrice(usd), ts |-> ts]

\* ------------------------------------------------------------ tables
NoPlayer == [exists |-> FALSE, score |-> 0, last_seen |-> 0]

NoGuess ==
  [id |-> 0, player_id |-> "", direction |-> "", price_at_guess |-> 0,
   guessed_at |-> 0, resolved_at |-> Null, price_at_resolve |-> Null,
   outcome |-> Null, status |-> "none"]

\* variant: the SELECT leaves the status out
PendingOf_any(p) == {g \in DOMAIN guesses : guesses[g].player_id = p}

\* SELECT id FROM guesses WHERE player_id = ? AND status = 'pending'
PendingOf(p) ==
  {g \in DOMAIN guesses : guesses[g].player_id = p /\ guesses[g].status = "pending"}

\* ------------------------------------------------------------ requests
IdleReq ==
  [op |-> "none", pc |-> "idle", playerId |-> "", direction |-> "", guessId |-> 0,
   guess |-> NoGuess, currentPrice |-> 0, outcome |-> "", scoreDelta |-> 0, score |-> 0]

NoArgs == [playerId |-> "", direction |-> "", guessId |-> 0]

\* resp is the response that the last step sent, with the request it answers
NoResp == [op |-> "none", args |-> NoArgs, via |-> "none", code |-> 0, body |-> <<>>]

Ready(r) == req[r].pc = "idle"

\* the handler of r returns: its locals are dropped
Respond(r, op, args, via, code, body) ==
  /\ req' = [req EXCEPT ![r] = IdleReq]
  /\ resp' = [op |-> op, args |-> args, via |-> via, code |-> code,
              body |-> body]

ArgsOf(r) ==
  [playerId |-> req[r].playerId, direction |-> req[r].direction, guessId |-> req[r].guessId]

Reply(r, via, code, body) == Respond(r, req[r].op, ArgsOf(r), via, code, body)

\* ------------------------------------------------- stores/game.ts, the atoms
NoEvent == [name |-> "none", id |-> 0, data |-> Null]

\* the atoms and the private variables of the store as the module is loaded, and the page
\* before onMount
ClientStart ==
  [playerId |-> "", score |-> 0, price |-> 0, phase |-> "idle", secondsLeft |-> 60,
   direction |-> Null, entryPrice |-> 0, resolution |-> Null, roundStartMs |-> 0,
   pendingGuess |-> Null, countdownTimer |-> FALSE,
   mounted |-> FALSE, submitting |-> FALSE, submit |-> Null,
   polls |-> [g \in ClientGuessIds |-> 0], issued |-> 0, clock |-> 0, event |-> NoEvent]

Init ==
  /\ players = [p \in Players |-> NoPlayer]
  /\ guesses = <<>>
  /\ price_feed = [usd |-> 0, ts |-> 0]
  /\ now = 0
  /\ req = [r \in Procs |-> IdleReq]
  /\ resp = NoResp
  /\ lastView = [g \in GuessIds |-> Null]
  /\ written = [g \in GuessIds |-> FALSE]
  /\ header = Null
  /\ cron = [pc |-> "idle", i |-> 0, price |-> 0, prev |-> "none", last |-> "none"]
  /\ client = ClientStart

\* ------------------------------------------------- handlers/resolve.ts
\* variant: the difference of the two instants is divided by 1000 once more
secondsElapsed_millis(guess) == (now - guess.guessed_at) \div 1000

secondsElapsed(guess) == now - guess.guessed_at

secondsLeftOf(elapsed) == ROUND_SECONDS - elapsed

\* variant: the timer ends one second early
timerRunning_early(elapsed) == elapsed < ROUND_SECONDS - 1

timerRunning(elapsed) == elapsed < ROUND_SECONDS

\* variant: the wait for a price change gives up once the round is over by a second
priceUnchanged_timeout(currentPrice, guess) ==
  currentPrice = guess.price_at_guess /\ now - guess.guessed_at <= ROUND_SECONDS

priceUnchanged(currentPrice, guess) == currentPrice = guess.price_at_guess

\* variant: the directions are swapped
correct_swapped(direction, currentPrice, entry) ==
  \/ direction = "down" /\ currentPrice > entry
  \/ direction = "up" /\ currentPrice < entry

correct(direction, currentPrice, entry) ==
  \/ direction = "up" /\ currentPrice > entry
  \/ direction = "down" /\ currentPrice < entry

outcomeOf(c) == IF c THEN "correct" ELSE "wrong"

scoreDeltaOf(c) == IF c THEN 1 ELSE 0 - 1

\* GuessStatusResponse
StatusBody(id, status, outcome, score, currentPrice, reason, secondsLeft) ==
  [id |-> id, status |-> status, outcome |-> outcome, score |-> score,
   currentPrice |-> currentPrice, reason |-> reason, secondsLeft |-> secondsLeft]

\* variant: every pending view carries a countdown, 0 once the timer is over
PendingBody_countdown(id, reason, secondsLeft) ==
  StatusBody(id, "pending", Null, Null, Null, Some(reason),
             IF secondsLeft = Null THEN Some(0) ELSE secondsLeft)

PendingBody(id, reason, secondsLeft) ==
  StatusBody(id, "pending", Null, Null, Null, Some(reason), secondsLeft)

\* SELECT score FROM players WHERE id = ?  ->  player?.score ?? null
scoreOrNull(p) == IF players[p].exists THEN Some(players[p].score) ELSE Null

\* variant: the already-resolved branch reports the live price instead of the stored one
resolvedView_live(guess) ==
  StatusBody(guess.id, "resolved", guess.outcome, scoreOrNull(guess.player_id),
             Some(getPriceFromDb.usd), Null, Null)

\* the view that the already-resolved branch returns
resolvedView(guess) ==
  StatusBody(guess.id, "resolved", guess.outcome, scoreOrNull(guess.player_id),
             guess.price_at_resolve, Null, Null)

\* variant: a missing guess is answered as a pending one
TR_SelectGuess_blank(r, gid) ==
  LET args == [playerId |-> "", direction |-> "", guessId |-> gid] IN
  /\ Ready(r)
  /\ IF gid \notin DOMAIN guesses
       THEN Respond(r, "tryResolve", args, "TR_NotFound", 200,
                    PendingBody(gid, "price_unavailable", Null))
       ELSE LET guess == guesses[gid]
                go(pc) == /\ req' = [req EXCEPT ![r] =
                                       [IdleReq EXCEPT !.op = "tryResolve", !.pc = pc,
                                                       !.guessId = gid, !.guess = guess]]
                          /\ resp' = NoResp
            IN IF guess.status = "resolved"
                 THEN go("tr_resolved_score")
                 ELSE IF timerRunning(secondsElapsed(guess))
                        THEN Respond(r, "tryResolve", args, "TR_Timer", 200,
                                     PendingBody(guess.id, "timer",
                                                 Some(secondsLeftOf(secondsElapsed(guess)))))
                        ELSE go("tr_price")
  /\ UNCHANGED <<players, guesses, price_feed, now>>

\* SELECT * FROM guesses WHERE id = ?, then the branches up to the next await
TR_SelectGuess(r, gid) ==
  LET args == [playerId |-> "", direction |-> "", guessId |-> gid] IN
  /\ Ready(r)
  /\ IF gid \notin DOMAIN guesses
       THEN Respond(r, "tryResolve", args, "TR_NotFound", 404, [error |-> "Guess not found"])
       ELSE LET guess == guesses[gid]
                go(pc) == /\ req' = [req EXCEPT ![r] =
                                       [IdleReq EXCEPT !.op = "tryResolve", !.pc = pc,
                                                       !.guessId = gid, !.guess = guess]]
                          /\ resp' = NoResp
            IN IF guess.status = "resolved"
                 THEN go("tr_resolved_score")
                 ELSE IF timerRunning(secondsElapsed(guess))
                        THEN Respond(r, "tryResolve", args, "TR_Timer", 200,
                                     PendingBody(guess.id, "timer",
                                                 Some(secondsLeftOf(secondsElapsed(guess)))))
                        ELSE go("tr_price")
  /\ UNCHANGED <<players, guesses, price_feed, now>>

\* variant: the already-resolved branch refreshes last_seen as a resolution does
TR_SelectScoreResolved_touching(r) ==
  /\ req[r].pc = "tr_resolved_score"
  /\ Reply(r, "TR_AlreadyResolved", 200, resolvedView(req[r].guess))
  /\ players' = [players EXCEPT ![req[r].guess.player_id].last_seen = now]
  /\ UNCHANGED <<guesses, price_feed, now>>

\* already resolved: SELECT score FROM players, return the stored result
TR_SelectScoreResolved(r) ==
  /\ req[r].pc = "tr_resolved_score"
  /\ Reply(r, "TR_AlreadyResolved", 200, resolvedView(req[r].guess))
  /\ UNCHANGED <<players, guesses, price_feed, now>>

\* condition 2: getPriceFromDb, then the branches up to the UPDATE
TR_GetPrice(r) ==
  LET guess == req[r].guess
      dbPrice == getPriceFromDb
      c == correct(guess.direction, dbPrice.usd, guess.price_at_guess)
  IN
  /\ req[r].pc = "tr_price"
  /\ IF dbPrice.isNull
       THEN Reply(r, "TR_PriceUnavailable", 200, PendingBody(guess.id, "price_unavailable", Null))
       ELSE IF priceUnchanged(dbPrice.usd, guess)
              THEN Reply(r, "TR_AwaitingPriceChange", 200,
                         PendingBody(guess.id, "awaiting_price_change", Null))
              ELSE /\ req' = [req EXCEPT ![r] =
                                [@ EXCEPT !.pc = "tr_update_guess", !.currentPrice = dbPrice.usd,
                                          !.outcome = outcomeOf(c), !.scoreDelta = scoreDeltaOf(c)]]
                   /\ resp' = NoResp
  /\ UNCHANGED <<players, guesses, price_feed, now>>

\* variant: the UPDATE leaves resolved_at out
TR_UpdateGuess_undated(r) ==
  LET gid == req[r].guessId IN
  /\ req[r].pc = "tr_update_guess"
  /\ guesses' = [guesses EXCEPT ![gid] =
                   [@ EXCEPT !.status = "resolved", !.outcome = Some(req[r].outcome),
                             !.price_at_resolve = Some(req[r].currentPrice)]]
  /\ req' = [req EXCEPT ![r].pc = "tr_update_score"]
  /\ resp' = NoResp
  /\ UNCHANGED <<players, price_feed, now>>

\* UPDATE guesses SET status = 'resolved', ... WHERE id = ?
TR_UpdateGuess(r) ==
  LET gid == req[r].guessId IN
  /\ req[r].pc = "tr_update_guess"
  /\ guesses' = [guesses EXCEPT ![gid] =
                   [@ EXCEPT !.status = "resolved", !.outcome = Some(req[r].outcome),
                             !.price_at_resolve = Some(req[r].currentPrice),
                             !.resolved_at = Some(now)]]
  /\ req' = [req EXCEPT ![r].pc = "tr_update_score"]
  /\ resp' = NoResp
  /\ UNCHANGED <<players, price_feed, now>>

\* UPDATE players SET score = score + ?, last_seen = datetime('now') WHERE id = ?
TR_UpdateScore(r) ==
  LET p == req[r].guess.player_id IN
  /\ req[r].pc = "tr_update_score"
  /\ players' = IF players[p].exists
                  THEN [players EXCEPT ![p] =
                          [@ EXCEPT !.score = @ + req[r].scoreDelta, !.last_seen = now]]
                  ELSE players
  /\ req' = [req EXCEPT ![r].pc = "tr_select_score"]
  /\ resp' = NoResp
  /\ UNCHANGED <<guesses, price_feed, now>>

\* SELECT score FROM players WHERE id = ?, return the resolved view
TR_SelectScore(r) ==
  /\ req[r].pc = "tr_select_score"
  /\ Reply(r, "TR_Resolved", 200,
           StatusBody(req[r].guess.id, "resolved", Some(req[r].outcome),
                      scoreOrNull(req[r].guess.player_id), Some(req[r].currentPrice),
                      Null, Null))
  /\ UNCHANGED <<players, guesses, price_feed, now>>

\* ------------------------------------------------- handlers/guesses.ts
InFlightCreates == {q \in Procs : req[q].op = "createGuess" /\ ~Ready(q)}

validBody(p, d) == p # "" /\ d \in Directions

\* variant: the price is looked at before the pending guess
CG_SelectExisting_priceFirst(r, p, d) ==
  LET args == [playerId |-> p, direction |-> d, guessId |-> 0] IN
  /\ Ready(r)
  /\ Len(guesses) + Cardinality(InFlightCreates) < Cardinality(GuessIds)
  /\ IF ~validBody(p, d)
       THEN Respond(r, "createGuess", args, "CG_Invalid", 400, [error |-> "Invalid request body"])
       ELSE IF getPriceFromDb.isNull
              THEN Respond(r, "createGuess", args, "CG_PriceUnavailable", 503,
                           [error |-> "Price unavailable"])
              ELSE IF PendingOf(p) # {}
                     THEN \E existing \in PendingOf(p) :
                            Respond(r, "createGuess", args, "CG_InProgress", 409,
                                    [error |-> "Guess already in progress",
                                     existingGuessId |-> existing])
                     ELSE /\ req' = [req EXCEPT ![r] =
                                       [IdleReq EXCEPT !.op = "createGuess", !.pc = "cg_price",
                                                       !.playerId = p, !.direction = d]]
                          /\ resp' = NoResp
  /\ UNCHANGED <<players, guesses, price_feed, now>>

\* body validation, SELECT id FROM guesses WHERE player_id = ? AND status = 'pending'
CG_SelectExisting(r, p, d) ==
  LET args == [playerId |-> p, direction |-> d, guessId |-> 0] IN
  /\ Ready(r)
  /\ Len(guesses) + Cardinality(InFlightCreates) < Cardinality(GuessIds)
  /\ IF ~validBody(p, d)
       THEN Respond(r, "createGuess", args, "CG_Invalid", 400, [error |-> "Invalid request body"])
       ELSE IF PendingOf(p) # {}
              THEN \E existing \in PendingOf(p) :
                     Respond(r, "createGuess", args, "CG_InProgress", 409,
                             [error |-> "Guess already in progress", existingGuessId |-> existing])
              ELSE /\ req' = [req EXCEPT ![r] =
                                [IdleReq EXCEPT !.op = "createGuess", !.pc = "cg_price",
                                                !.playerId = p, !.direction = d]]
                   /\ resp' = NoResp
  /\ UNCHANGED <<players, guesses, price_feed, now>>

\* variant: a missing price does not stop the submit
CG_GetPrice_lenient(r) ==
  /\ req[r].pc = "cg_price"
  /\ req' = [req EXCEPT ![r] = [@ EXCEPT !.pc = "cg_insert", !.currentPrice = getPriceFromDb.usd]]
  /\ resp' = NoResp
  /\ UNCHANGED <<players, guesses, price_feed, now>>

\* getPriceFromDb: lock the entry price
CG_GetPrice(r) ==
  LET dbPrice == getPriceFromDb IN
  /\ req[r].pc = "cg_price"
  /\ IF dbPrice.isNull
       THEN Reply(r, "CG_PriceUnavailable", 503, [error |-> "Price unavailable"])
       ELSE /\ req' = [req EXCEPT ![r] = [@ EXCEPT !.pc = "cg_insert", !.currentPrice = dbPrice.usd]]
            /\ resp' = NoResp
  /\ UNCHANGED <<players, guesses, price_feed, now>>

\* variant: the request decides about the entry price
newGuess_tampered(id, p, d, usd) ==
  [id |-> id, player_id |-> p, direction |-> d,
   price_at_guess |-> IF d = "up" THEN usd + 10 ELSE usd - 10,
   guessed_at |-> now, resolved_at |-> Null, price_at_resolve |-> Null,
   outcome |-> Null, status |-> "pending"]

\* the row that INSERT INTO guesses (player_id, direction, price_at_guess) creates
newGuess(id, p, d, usd) ==
  [id |-> id, player_id |-> p, direction |-> d, price_at_guess |-> usd,
   guessed_at |-> now, resolved_at |-> Null, price_at_resolve |-> Null,
   outcome |-> Null, status |-> "pending"]

\* INSERT INTO guesses ... RETURNING id, guessed_at; player_id REFERENCES players(id)
CG_Insert(r) ==
  LET p == req[r].playerId
      id == Len(guesses) + 1
      row == newGuess(id, p, req[r].direction, req[r].currentPrice)
  IN
  /\ req[r].pc = "cg_insert"
  /\ IF ~players[p].exists
       THEN /\ Reply(r, "CG_Error", 500, [error |-> "Internal server error"])
            /\ UNCHANGED guesses
       ELSE /\ guesses' = Append(guesses, row)
            /\ Reply(r, "CG_Created", 201,
                     [id |-> id, priceAtGuess |-> req[r].currentPrice, guessedAt |-> row.guessed_at])
  /\ UNCHANGED <<players, price_feed, now>>

\* ------------------------------------------------- handlers/players.ts
\* last_seen > cutoff compares the text of datetime('now') ("YYYY-MM-DD HH:MM:SS")
\* with the text of toISOString() ("YYYY-MM-DDTHH:MM:SS.sssZ"): the dates decide,
\* and on equal dates ' ' sorts before 'T'
dateOf(t) == t \div SECONDS_PER_DAY

cutoff == now - ACTIVE_WINDOW_HOURS * 3600

isActive(last_seen) == dateOf(last_seen) > dateOf(cutoff)

\* SELECT COUNT(*) FROM players WHERE last_seen > ? AND id != ?
activeCount(id) ==
  Cardinality({q \in Players : players[q].exists /\ isActive(players[q].last_seen) /\ q # id})

atCapacity(count) == count >= MAX_PLAYERS

\* PlayerResponse
PlayerBody(id, score, pendingGuess) == [id |-> id, score |-> score, pendingGuess |-> pendingGuess]

\* SELECT * FROM guesses WHERE player_id = ? AND status = 'pending' LIMIT 1
PendingRows(p) == IF PendingOf(p) = {} THEN {Null} ELSE {Some(guesses[g]) : g \in PendingOf(p)}

\* id validation, the active count and the capacity gate
CP_CountActive(r, id) ==
  LET args == [playerId |-> id, direction |-> "", guessId |-> 0] IN
  /\ Ready(r)
  /\ IF id = ""
       THEN Respond(r, "createOrUpdatePlayer", args, "CP_Invalid", 400,
                    [error |-> "Missing or invalid player id"])
       ELSE IF atCapacity(activeCount(id))
              THEN Respond(r, "createOrUpdatePlayer", args, "CP_AtCapacity", 503,
                           [error |-> "Game is at capacity", full |-> TRUE,
                            activeUsers |-> activeCount(id), maxUsers |-> MAX_PLAYERS])
              ELSE /\ req' = [req EXCEPT ![r] =
                                [IdleReq EXCEPT !.op = "createOrUpdatePlayer", !.pc = "cp_upsert",
                                                !.playerId = id]]
                   /\ resp' = NoResp
  /\ UNCHANGED <<players, guesses, price_feed, now>>

\* variant: INSERT OR REPLACE, the row of a known player starts over
CP_Upsert_reset(r) ==
  LET id == req[r].playerId IN
  /\ req[r].pc = "cp_upsert"
  /\ players' = [players EXCEPT ![id] = [exists |-> TRUE, score |-> 0, last_seen |-> now]]
  /\ req' = [req EXCEPT ![r].pc = "cp_select"]
  /\ resp' = NoResp
  /\ UNCHANGED <<guesses, price_feed, now>>

\* INSERT INTO players ... ON CONFLICT(id) DO UPDATE SET last_seen = datetime('now')
CP_Upsert(r) ==
  LET id == req[r].playerId IN
  /\ req[r].pc = "cp_upsert"
  /\ players' = [players EXCEPT ![id] =
                   IF @.exists THEN [@ EXCEPT !.last_seen = now]
                               ELSE [exists |-> TRUE, score |-> 0, last_seen |-> now]]
  /\ req' = [req EXCEPT ![r].pc = "cp_select"]
  /\ resp' = NoResp
  /\ UNCHANGED <<guesses, price_feed, now>>

\* SELECT id, score FROM players WHERE id = ?
CP_SelectPlayer(r) ==
  /\ req[r].pc = "cp_select"
  /\ req' = [req EXCEPT ![r] = [@ EXCEPT !.pc = "cp_pending", !.score = players[req[r].playerId].score]]
  /\ resp' = NoResp
  /\ UNCHANGED <<players, guesses, price_feed, now>>

\* the pending guess of the player, for session restore
CP_SelectPending(r) ==
  /\ req[r].pc = "cp_pending"
  /\ \E pendingGuess \in PendingRows(req[r].playerId) :
       Reply(r, "CP_Ok", 200, PlayerBody(req[r].playerId, req[r].score, pendingGuess))
  /\ UNCHANGED <<players, guesses, price_feed, now>>

\* UPDATE players SET last_seen = datetime('now') WHERE id = ?
GP_Touch(r, id) ==
  /\ Ready(r)
  /\ players' = [players EXCEPT ![id] = IF @.exists THEN [@ EXCEPT !.last_seen = now] ELSE @]
  /\ req' = [req EXCEPT ![r] = [IdleReq EXCEPT !.op = "getPlayer", !.pc = "gp_select", !.playerId = id]]
  /\ resp' = NoResp
  /\ UNCHANGED <<guesses, price_feed, now>>

\* SELECT id, score FROM players WHERE id = ?
GP_SelectPlayer(r) ==
  LET player == players[req[r].playerId] IN
  /\ req[r].pc = "gp_select"
  /\ req' = [req EXCEPT ![r] =
               IF player.exists THEN [@ EXCEPT !.pc = "gp_pending", !.score = player.score]
                                ELSE [@ EXCEPT !.pc = "gp_insert"]]
  /\ resp' = NoResp
  /\ UNCHANGED <<players, guesses, price_feed, now>>

\* INSERT INTO players (id) VALUES (?): fails on the primary key if the row exists by now
GP_Insert(r) ==
  LET id == req[r].playerId IN
  /\ req[r].pc = "gp_insert"
  /\ IF players[id].exists
       THEN /\ Reply(r, "GP_Error", 500, [error |-> "Internal server error"])
            /\ UNCHANGED players
       ELSE /\ players' = [players EXCEPT ![id] = [exists |-> TRUE, score |-> 0, last_seen |-> now]]
            /\ Reply(r, "GP_Created", 200, PlayerBody(id, 0, Null))
  /\ UNCHANGED <<guesses, price_feed, now>>

GP_SelectPending(r) ==
  /\ req[r].pc = "gp_pending"
  /\ \E pendingGuess \in PendingRows(req[r].playerId) :
       Reply(r, "GP_Ok", 200, PlayerBody(req[r].playerId, req[r].score, pendingGuess))
  /\ UNCHANGED <<players, guesses, price_feed, now>>

\* ------------------------------------------------- middleware/auth.ts
\* env.API_SECRET as configured for the model
API_SECRET == "s3cret"

\* the x-api-secret headers that requests carry; "" is a missing header (?? '')
Secrets == {"", "s3cret", "guess"}

\* the SHA-256 digest in hex: equal for equal values only
digest(value) == <<"sha256", value>>

\* variant: a request without the header is let in
requireAuth_missingOk(provided) ==
  IF provided # "" /\ digest(provided) # digest(API_SECRET) THEN Some(401) ELSE Null

\* the 401 response of requireAuth, or null when the request may pass
requireAuth(provided) == IF digest(provided) # digest(API_SECRET) THEN Some(401) ELSE Null

\* fetch: the auth gate turns the request away, no route is looked at
Unauthorized(r, provided) ==
  /\ Ready(r)
  /\ requireAuth(provided) # Null
  /\ Respond(r, "fetch", NoArgs, "Unauthorized", requireAuth(provided)[1], [error |-> "Unauthorized"])
  /\ header' = Some(provided)
  /\ UNCHANGED <<players, guesses, price_feed, now, lastView, written, cron, client>>

\* fetch: the auth gate lets the request in, the step goes on in the handler of its route
Authorized(provided) ==
  /\ requireAuth(provided) = Null
  /\ header' = Some(provided)
  /\ UNCHANGED <<lastView, written, cron, client>>

\* a step that is not the start of a request
Inside == header' = Null /\ UNCHANGED <<lastView, written, cron, client>>

\* ------------------------------------------------- a statement that throws
\* where a throw of env.DB ends up: getGuessStatus catches whatever tryResolve throws and
\* answers 404; every other handler lets it through to the catch of fetch, which answers 500
thrownCode(op) == IF op = "tryResolve" THEN 404 ELSE 500

thrownBody(op) ==
  IF op = "tryResolve" THEN [error |-> "Guess not found"] ELSE [error |-> "Internal server error"]

\* the first statement of a handler throws
FirstStatementThrows(r, op, args) ==
  /\ Ready(r)
  /\ Respond(r, op, args, "DbError", thrownCode(op), thrownBody(op))
  /\ UNCHANGED <<players, guesses, price_feed, now>>

\* the next statement of the handler that r runs throws
StatementThrows(r) ==
  /\ ~Ready(r)
  /\ Reply(r, "DbError", thrownCode(req[r].op), thrownBody(req[r].op))
  /\ UNCHANGED <<players, guesses, price_feed, now>>

\* ------------------------------------------------- cron/priceFetcher.ts
\* what fetchBtcPrice yields in one iteration: a strictly positive price, or it throws
FetchResultsOf(prices) == {[ok |-> FALSE, price |-> 0]} \cup {[ok |-> TRUE, price |-> x] : x \in prices}

FetchResults == FetchResultsOf(RawPrices)

\* variant: the fetcher settles the pending guesses whose round is over when the price moves
PF_Iteration_settling(res) ==
  /\ IF res.ok
       THEN /\ setPriceInDb(res.price, now)
            /\ guesses' =
                 [g \in DOMAIN guesses |->
                    IF /\ guesses[g].status = "pending"
                       /\ ~timerRunning(secondsElapsed(guesses[g]))
                       /\ roundPrice(res.price) # guesses[g].price_at_guess
                      THEN [guesses[g] EXCEPT
                              !.status = "resolved", !.resolved_at = Some(now),
                              !.price_at_resolve = Some(roundPrice(res.price)),
                              !.outcome = Some(outcomeOf(correct(guesses[g].direction,
                                                                 roundPrice(res.price),
                                                                 guesses[g].price_at_guess)))]
                      ELSE guesses[g]]
       ELSE UNCHANGED <<price_feed, guesses>>
  /\ resp' = NoResp
  /\ UNCHANGED <<players, now, req>>

\* one iteration of the loop of runPriceFetcher
PF_Iteration(res) ==
  /\ IF res.ok THEN setPriceInDb(res.price, now) ELSE UNCHANGED price_feed
  /\ resp' = NoResp
  /\ UNCHANGED <<players, guesses, now, req>>

\* the call of setPriceInDb in an iteration, kept with its payload
PF_SetPrice(payload) ==
  /\ setPriceInDb(payload.usd, payload.ts)
  /\ resp' = [op |-> "setPriceInDb", args |-> NoArgs, via |-> "PF_SetPrice", code |-> 0,
              body |-> payload]
  /\ UNCHANGED <<players, guesses, now, req>>

\* an iteration that fetched x and stores it, the local `price` of the loop kept in cron
PF_FetchStore(x) ==
  /\ PF_SetPrice([usd |-> x, ts |-> now])
  /\ cron' = [cron EXCEPT !.price = x]

\* the sources in the order in which fetchBtcPrice calls them
Sources == <<"kraken", "binance", "coingecko">>

CRON_ITERATIONS == 30

CRON_INTERVAL_MS == 2000

\* what a source does when called: fetch throws, the status is not OK, the payload does not
\* parse to a number, or it parses to a value; "silent" is a call that never settles
AnswersOf(kinds, values) ==
  {[kind |-> k, price |-> 0] : k \in kinds} \cup {[kind |-> "value", price |-> x] : x \in values}

\* the answers of the three sources in the runs that follow the loop
LoopAnswers == [1 .. 3 -> AnswersOf({"throws", "status", "malformed"}, {0, 100000})]

\* the answers in the runs that follow one call of fetchBtcPrice
WideAnswers ==
  [1 .. 3 -> AnswersOf({"throws", "status", "malformed"}, {0 - 100000, 0, 100000, 100010})]

\* the answers in the runs where a source may never settle
SilentAnswers == [1 .. 3 -> AnswersOf({"throws", "silent"}, {100000})]

\* variant: a value of zero is taken as a price
yields_lenient(a) == a.kind = "value" /\ a.price >= 0

\* if (price > 0) return price
yields(a) == a.kind = "value" /\ a.price > 0

\* the first source from k on at which fetchBtcPrice stops: it yields or never settles; 0 if none
RECURSIVE firstStop(_, _)
firstStop(answers, k) ==
  IF k > Len(Sources) THEN 0
  ELSE IF yields(answers[k]) \/ answers[k].kind = "silent" THEN k
  ELSE firstStop(answers, k + 1)

\* variant: with no source left the price is 0 instead of a throw
fetchBtcPrice_zero(answers) ==
  LET w == firstStop(answers, 1) IN
  IF w = 0 THEN [ok |-> TRUE, hangs |-> FALSE, price |-> 0, called |-> Len(Sources)]
  ELSE IF answers[w].kind = "silent"
         THEN [ok |-> FALSE, hangs |-> TRUE, price |-> 0, called |-> w]
         ELSE [ok |-> TRUE, hangs |-> FALSE, price |-> answers[w].price, called |-> w]

\* the result of fetchBtcPrice with the number of sources it called
fetchBtcPrice(answers) ==
  LET w == firstStop(answers, 1) IN
  IF w = 0 THEN [ok |-> FALSE, hangs |-> FALSE, price |-> 0, called |-> Len(Sources)]
  ELSE IF answers[w].kind = "silent"
         THEN [ok |-> FALSE, hangs |-> TRUE, price |-> 0, called |-> w]
         ELSE [ok |-> TRUE, hangs |-> FALSE, price |-> answers[w].price, called |-> w]

\* scheduled: the cron trigger starts runPriceFetcher
Scheduled ==
  /\ cron.pc = "idle"
  /\ cron' = [pc |-> "fetch", i |-> 0, price |-> 0, prev |-> "none", last |-> "none"]
  /\ resp' = NoResp
  /\ UNCHANGED <<players, guesses, price_feed, now, req>>

\* const price = await fetchBtcPrice(): a throw goes to the catch of the iteration
PF_FetchOnce(answers) ==
  LET res == fetchBtcPrice(answers) IN
  /\ cron.pc = "fetch"
  /\ cron' = IF res.hangs THEN [cron EXCEPT !.pc = "waiting"]
             ELSE IF res.ok THEN [cron EXCEPT !.pc = "store", !.price = res.price]
             ELSE [cron EXCEPT !.pc = "sleep", !.last = "failed"]
  /\ resp' = [op |-> "fetchBtcPrice", args |-> NoArgs,
              via |-> IF res.hangs THEN "PF_Waiting"
                      ELSE IF res.ok THEN "PF_Fetched" ELSE "PF_AllFailed",
              code |-> 0,
              body |-> [answers |-> answers, ok |-> res.ok, price |-> res.price,
                        called |-> res.called]]
  /\ UNCHANGED <<players, guesses, price_feed, now, req>>

\* variant: a write that throws ends the run
PF_Store_abort(throws) ==
  /\ cron.pc = "store"
  /\ IF throws
       THEN /\ UNCHANGED price_feed
            /\ cron' = [cron EXCEPT !.pc = "done", !.last = "failed"]
            /\ resp' = [NoResp EXCEPT !.op = "setPriceInDb", !.via = "PF_StoreThrew"]
       ELSE /\ setPriceInDb(cron.price, now)
            /\ cron' = [cron EXCEPT !.pc = "sleep", !.last = "ok"]
            /\ resp' = [NoResp EXCEPT !.op = "setPriceInDb", !.via = "PF_Stored"]
  /\ UNCHANGED <<players, guesses, now, req>>

\* await setPriceInDb(env.DB, {usd: price, ts}): a throw goes to the catch of the iteration
PF_Store(throws) ==
  /\ cron.pc = "store"
  /\ IF throws
       THEN /\ UNCHANGED price_feed
            /\ cron' = [cron EXCEPT !.pc = "sleep", !.last = "failed"]
            /\ resp' = [NoResp EXCEPT !.op = "setPriceInDb", !.via = "PF_StoreThrew"]
       ELSE /\ setPriceInDb(cron.price, now)
            /\ cron' = [cron EXCEPT !.pc = "sleep", !.last = "ok"]
            /\ resp' = [NoResp EXCEPT !.op = "setPriceInDb", !.via = "PF_Stored"]
  /\ UNCHANGED <<players, guesses, now, req>>

\* the end of an iteration: sleep and go on, or leave the loop after the last one
PF_Sleep ==
  /\ cron.pc = "sleep"
  /\ IF cron.i < CRON_ITERATIONS - 1
       THEN /\ cron' = [cron EXCEPT !.pc = "fetch", !.i = @ + 1, !.prev = cron.last]
            /\ now' = now + CRON_INTERVAL_MS \div 1000
       ELSE /\ cron' = [cron EXCEPT !.pc = "done"]
            /\ now' = now
  /\ resp' = NoResp
  /\ UNCHANGED <<players, guesses, price_feed, req>>

\* ------------------------------------------------- handlers/price.ts
\* variant: serving the sample stamps it with the time of the read
getPrice_stamping(r) ==
  LET cached == getPriceFromDb IN
  /\ Ready(r)
  /\ IF cached.isNull
       THEN /\ Respond(r, "getPrice", NoArgs, "PR_Unavailable", 503,
                       [error |-> "Price unavailable", unavailable |-> TRUE])
            /\ UNCHANGED price_feed
       ELSE /\ Respond(r, "getPrice", NoArgs, "PR_Ok", 200, [usd |-> cached.usd, ts |-> now])
            /\ price_feed' = [price_feed EXCEPT !.ts = now]
  /\ UNCHANGED <<players, guesses, now>>

\* GET /price: the sample of the price feed, or 503 while there is none
getPrice(r) ==
  LET cached == getPriceFromDb IN
  /\ Ready(r)
  /\ IF cached.isNull
       THEN Respond(r, "getPrice", NoArgs, "PR_Unavailable", 503,
                    [error |-> "Price unavailable", unavailable |-> TRUE])
       ELSE Respond(r, "getPrice", NoArgs, "PR_Ok", 200, [usd |-> cached.usd, ts |-> cached.ts])
  /\ UNCHANGED <<players, guesses, price_feed, now>>

\* ------------------------------------------------- handlers/price-stream.ts
\* one turn of the loop of pump: the sample is pushed as an event, or the tick is skipped
pump ==
  LET cached == getPriceFromDb IN
  /\ resp' = IF cached.isNull
               THEN [op |-> "priceStream", args |-> NoArgs, via |-> "PS_Skip", code |-> 0,
                     body |-> Null]
               ELSE [op |-> "priceStream", args |-> NoArgs, via |-> "PS_Event", code |-> 200,
                     body |-> [usd |-> cached.usd, ts |-> cached.ts]]
  /\ UNCHANGED <<players, guesses, price_feed, now, req>>

\* ------------------------------------------------- stores/game.ts and +page.svelte
backend == <<players, guesses, price_feed, now, req, resp, lastView, written, header, cron>>

ROUND_MS == ROUND_SECONDS * 1000

\* new Date(guessed_at + 'Z').getTime(): the seconds of datetime('now') in milliseconds
parseGuessedAt(guessed_at) == guessed_at * 1000

\* Math.ceil(ms / 1000)
ceilSeconds(ms) == 0 - ((0 - ms) \div 1000)

\* Math.max(0, Math.ceil(60 - (Date.now() - guessedAt) / 1000))
remainingAt(clock, guessedAt) ==
  LET left == ceilSeconds(ROUND_MS - (clock - guessedAt)) IN IF left < 0 THEN 0 ELSE left

\* Math.abs(currentPrice - entry) >= 0.01, in mills
movedACent(currentPrice, entry) ==
  (IF currentPrice >= entry THEN currentPrice - entry ELSE entry - currentPrice) >= 10

stopCountdown(c) == [c EXCEPT !.countdownTimer = FALSE]

startCountdown(c) == [stopCountdown(c) EXCEPT !.countdownTimer = TRUE]

\* variant: a restore always starts in 'guessing' with a countdown
restoreGuess_counting(c, guess) ==
  LET guessedAt == parseGuessedAt(guess.guessed_at)
      set == [c EXCEPT !.pendingGuess = Some([id |-> guess.id, direction |-> guess.direction,
                                               priceAtGuess |-> guess.price_at_guess,
                                               guessedAt |-> guessedAt]),
                       !.roundStartMs = guessedAt,
                       !.direction = Some(guess.direction),
                       !.entryPrice = guess.price_at_guess]
  IN startCountdown([set EXCEPT !.phase = "guessing",
                                !.secondsLeft = remainingAt(c.clock, guessedAt)])

restoreGuess(c, guess) ==
  LET guessedAt == parseGuessedAt(guess.guessed_at)
      elapsed == c.clock - guessedAt
      set == [c EXCEPT !.pendingGuess = Some([id |-> guess.id, direction |-> guess.direction,
                                               priceAtGuess |-> guess.price_at_guess,
                                               guessedAt |-> guessedAt]),
                       !.roundStartMs = guessedAt,
                       !.direction = Some(guess.direction),
                       !.entryPrice = guess.price_at_guess]
  IN IF elapsed >= ROUND_MS
       THEN [set EXCEPT !.phase = "waiting", !.secondsLeft = 0]
       ELSE startCountdown([set EXCEPT !.phase = "guessing",
                                       !.secondsLeft = remainingAt(c.clock, guessedAt)])

initGame(c, serverData) ==
  LET set == [c EXCEPT !.playerId = serverData.id, !.score = serverData.score] IN
  IF serverData.pendingGuess # Null THEN restoreGuess(set, serverData.pendingGuess[1]) ELSE set

resetGame(c) ==
  [stopCountdown(c) EXCEPT !.pendingGuess = Null, !.roundStartMs = 0, !.phase = "idle",
                           !.direction = Null, !.entryPrice = 0, !.resolution = Null,
                           !.secondsLeft = 60]

\* what load hands to the page: no player, or the PlayerResponse of POST /players
ServerData ==
  {Null} \cup
  {Some(PlayerBody("p1", sc, pg)) :
     sc \in {0, 1},
     pg \in {Null} \cup
            {Some([id |-> 1, player_id |-> "p1", direction |-> d, price_at_guess |-> 100000,
                   guessed_at |-> 0, resolved_at |-> Null, price_at_resolve |-> Null,
                   outcome |-> Null, status |-> "pending"]) : d \in Directions}}

\* the bodies that GET /guesses/:id answers for guess g: pending, resolved, or an error
StatusData(g) ==
  {PendingBody(g, "awaiting_price_change", Null), [error |-> "Guess not found"]} \cup
  {StatusBody(g, "resolved", Some(o), sc, Some(x), Null, Null) :
     o \in {"correct", "wrong"}, sc \in {Null, Some(1)}, x \in TwoPrices}

\* onMount: the price feed is connected, and initGame runs if load gave a player
Mount(serverData) ==
  /\ ~client.mounted
  /\ client' =
       LET on == [client EXCEPT !.mounted = TRUE,
                                !.event = [name |-> "mount", id |-> 0, data |-> serverData]]
       IN
       IF serverData = Null THEN on
       ELSE [initGame(on, serverData[1]) EXCEPT
               !.issued = IF serverData[1].pendingGuess # Null THEN 1 ELSE 0]
  /\ UNCHANGED backend

\* variant: the call is made as soon as the timer is over, whatever the price
wouldPoll_timerOnly(c, newPrice) ==
  /\ c.pendingGuess # Null
  /\ c.phase \notin {"idle", "resolved"}
  /\ c.clock - c.pendingGuess[1].guessedAt >= ROUND_MS

\* checkResolution up to its fetch: the guards that let the call be made
wouldPoll(c, newPrice) ==
  /\ c.pendingGuess # Null
  /\ c.phase \notin {"idle", "resolved"}
  /\ c.clock - c.pendingGuess[1].guessedAt >= ROUND_MS
  /\ newPrice # c.pendingGuess[1].priceAtGuess

\* eventSource.onmessage: the price is set and checkResolution runs up to its fetch
Message(usd) ==
  /\ client.mounted
  /\ IF wouldPoll(client, usd)
       THEN LET g == client.pendingGuess[1].id IN
            /\ client.polls[g] < MaxPolls
            /\ client' = [client EXCEPT !.price = usd, !.polls[g] = @ + 1,
                                        !.event = [name |-> "poll", id |-> g, data |-> Null]]
       ELSE client' = [client EXCEPT !.price = usd,
                                     !.event = [NoEvent EXCEPT !.name = "message"]]
  /\ UNCHANGED backend

\* variant: the countdown is left running as the round is resolved
applyStatus_ticking(c, g, data) ==
  IF "status" \notin DOMAIN data \/ data.status # "resolved"
    THEN [c EXCEPT !.event = [name |-> "status_ignored", id |-> g, data |-> Null]]
    ELSE IF c.pendingGuess = Null
      THEN [c EXCEPT !.event = [name |-> "status_threw", id |-> g, data |-> Null]]
      ELSE LET pg == c.pendingGuess[1] IN
           [c EXCEPT
              !.pendingGuess = Null, !.roundStartMs = 0,
              !.score = IF data.score = Null THEN c.score ELSE data.score[1],
              !.resolution = Some([outcome |-> data.outcome[1], direction |-> pg.direction,
                                   entryPrice |-> pg.priceAtGuess,
                                   finalPrice |-> data.currentPrice[1],
                                   scoreDelta |-> IF data.outcome = Some("correct") THEN 1 ELSE 0 - 1]),
              !.price = data.currentPrice[1],
              !.phase = "resolved",
              !.event = [name |-> "status_applied", id |-> g, data |-> Some(data)]]

\* checkResolution after its fetch: pendingGuess is read again, as it is by then
applyStatus(c, g, data) ==
  IF "status" \notin DOMAIN data \/ data.status # "resolved"
    THEN [c EXCEPT !.event = [name |-> "status_ignored", id |-> g, data |-> Null]]
    ELSE IF c.pendingGuess = Null
      THEN [c EXCEPT !.event = [name |-> "status_threw", id |-> g, data |-> Null]]
      ELSE LET pg == c.pendingGuess[1] IN
           [stopCountdown(c) EXCEPT
              !.pendingGuess = Null, !.roundStartMs = 0,
              !.score = IF data.score = Null THEN c.score ELSE data.score[1],
              !.resolution = Some([outcome |-> data.outcome[1], direction |-> pg.direction,
                                   entryPrice |-> pg.priceAtGuess,
                                   finalPrice |-> data.currentPrice[1],
                                   scoreDelta |-> IF data.outcome = Some("correct") THEN 1 ELSE 0 - 1]),
              !.price = data.currentPrice[1],
              !.phase = "resolved",
              !.event = [name |-> "status_applied", id |-> g, data |-> Some(data)]]

\* the response of a guess-status request for guess g arrives
StatusResponse(g, data) ==
  /\ client.polls[g] > 0
  /\ client' = applyStatus([client EXCEPT !.polls[g] = @ - 1], g, data)
  /\ UNCHANGED backend

\* variant: the click is taken in every phase
Click_anyPhase(dir) ==
  /\ client.mounted /\ ~client.submitting
  /\ client' = IF client.playerId = ""
                 THEN [client EXCEPT !.event = [NoEvent EXCEPT !.name = "click_threw"]]
                 ELSE [client EXCEPT !.submitting = TRUE, !.submit = Some(dir),
                                     !.event = [NoEvent EXCEPT !.name = "click"]]
  /\ UNCHANGED backend

\* handleGuess: a click on HODL or FOLD; submitGuess throws at once without a player id
Click(dir) ==
  /\ client.mounted /\ ~client.submitting /\ client.phase = "idle"
  /\ client' = IF client.playerId = ""
                 THEN [client EXCEPT !.event = [NoEvent EXCEPT !.name = "click_threw"]]
                 ELSE [client EXCEPT !.submitting = TRUE, !.submit = Some(dir),
                                     !.event = [NoEvent EXCEPT !.name = "click"]]
  /\ UNCHANGED backend

\* submitGuess after its fetch: the 201 of POST /guesses, or a response that is not ok
SubmitResponse(ok, priceAtGuess) ==
  /\ client.submit # Null
  /\ IF ok
       THEN /\ client.issued < MaxSubmits
            /\ client' =
                 LET id == client.issued + 1 IN
                 startCountdown(
                   [client EXCEPT
                      !.pendingGuess = Some([id |-> id, direction |-> client.submit[1],
                                             priceAtGuess |-> priceAtGuess,
                                             guessedAt |-> client.clock]),
                      !.roundStartMs = client.clock,
                      !.direction = client.submit,
                      !.entryPrice = priceAtGuess,
                      !.resolution = Null,
                      !.phase = "guessing",
                      !.secondsLeft = 60,
                      !.submitting = FALSE, !.submit = Null, !.issued = id,
                      !.event = [name |-> "submit_ok", id |-> id, data |-> Null]])
       ELSE client' = [client EXCEPT !.submitting = FALSE, !.submit = Null,
                                     !.event = [NoEvent EXCEPT !.name = "submit_failed"]]
  /\ UNCHANGED backend

\* handleReset: a click on PLAY AGAIN, shown in phase 'resolved'
Reset ==
  /\ client.mounted /\ client.phase = "resolved"
  /\ client' = [resetGame(client) EXCEPT !.event = [NoEvent EXCEPT !.name = "reset"]]
  /\ UNCHANGED backend

\* the callback of setInterval in startCountdown
CountdownTick ==
  /\ client.countdownTimer
  /\ client' =
       LET ev == [client EXCEPT !.event = [NoEvent EXCEPT !.name = "countdown"]] IN
       IF client.pendingGuess = Null THEN ev
       ELSE LET g == client.pendingGuess[1]
                remaining == remainingAt(client.clock, g.guessedAt)
                left == [ev EXCEPT !.secondsLeft = remaining]
            IN IF remaining <= 0
                 THEN IF client.phase = "guessing"
                        THEN [stopCountdown(left) EXCEPT
                                !.phase = IF movedACent(client.price, g.priceAtGuess)
                                            THEN "validating" ELSE "waiting"]
                        ELSE stopCountdown(left)
                 ELSE left
  /\ UNCHANGED backend

\* Date.now() moves on
ClientTick(t) ==
  /\ t > client.clock
  /\ client' = [client EXCEPT !.clock = t, !.event = [NoEvent EXCEPT !.name = "tick"]]
  /\ UNCHANGED backend

NextClient ==
  \/ \E serverData \in ServerData : Mount(serverData)
  \/ \E usd \in TwoPrices : Message(usd)
  \/ \E g \in ClientGuessIds : \E data \in StatusData(g) : StatusResponse(g, data)
  \/ \E dir \in Directions : Click(dir)
  \/ \E ok \in BOOLEAN, x \in TwoPrices : SubmitResponse(ok, x)
  \/ Reset
  \/ CountdownTick
  \/ \E t \in ClientInstants : ClientTick(t)

SpecClient == Init /\ [][NextClient]_vars

\* --------------------------------------------------------------- the clock
Tick(t) ==
  /\ t > now
  /\ now' = t
  /\ resp' = NoResp
  /\ UNCHANGED <<players, guesses, price_feed, req>>

\* ------------------------------------------------- the specifications
\* history of the already-resolved branch: lastView[g] is the view that the last such call
\* on g returned; written[g] tells whether the row of g or the score of its owner was
\* written since that call read the row
Observe ==
  LET returning(r, g) == req[r].pc = "tr_resolved_score" /\ req'[r].pc = "idle" /\ req[r].guessId = g
      returned(g) == \E r \in Procs : returning(r, g)
      stale(g) == \E r \in Procs : returning(r, g) /\ req[r].guess # guesses[g]
      touched(g) == /\ g \in DOMAIN guesses
                    /\ \/ guesses'[g] # guesses[g]
                       \/ players'[guesses[g].player_id].score # players[guesses[g].player_id].score
  IN
  /\ lastView' = [g \in GuessIds |-> IF returned(g) THEN Some(resp'.body) ELSE lastView[g]]
  /\ written' = [g \in GuessIds |->
                   IF returned(g) THEN stale(g) ELSE written[g] \/ (lastView[g] # Null /\ touched(g))]
  /\ UNCHANGED <<header, cron, client>>

NoObserve == UNCHANGED <<lastView, written, header, cron, client>>

BodyDirections == Directions \cup {"sideways"}

\* the whole backend
Next ==
  \/ \E r \in Procs, gid \in GuessIds : TR_SelectGuess(r, gid) /\ NoObserve
  \/ \E r \in Procs : TR_SelectScoreResolved(r) /\ NoObserve
  \/ \E r \in Procs : TR_GetPrice(r) /\ NoObserve
  \/ \E r \in Procs : TR_UpdateGuess(r) /\ NoObserve
  \/ \E r \in Procs : TR_UpdateScore(r) /\ NoObserve
  \/ \E r \in Procs : TR_SelectScore(r) /\ NoObserve
  \/ \E r \in Procs, p \in Players, d \in BodyDirections : CG_SelectExisting(r, p, d) /\ NoObserve
  \/ \E r \in Procs : CG_GetPrice(r) /\ NoObserve
  \/ \E r \in Procs : CG_Insert(r) /\ NoObserve
  \/ \E r \in Procs, id \in Players \cup {""} : CP_CountActive(r, id) /\ NoObserve
  \/ \E r \in Procs : CP_Upsert(r) /\ NoObserve
  \/ \E r \in Procs : CP_SelectPlayer(r) /\ NoObserve
  \/ \E r \in Procs : CP_SelectPending(r) /\ NoObserve
  \/ \E r \in Procs, id \in Players : GP_Touch(r, id) /\ NoObserve
  \/ \E r \in Procs : GP_SelectPlayer(r) /\ NoObserve
  \/ \E r \in Procs : GP_Insert(r) /\ NoObserve
  \/ \E r \in Procs : GP_SelectPending(r) /\ NoObserve
  \/ \E res \in FetchResults : PF_Iteration(res) /\ NoObserve
  \/ \E t \in Instants : Tick(t) /\ NoObserve

Spec == Init /\ [][Next]_vars

\* the resolution core: p1 is registered (getPlayer at 0), the player handlers are idle
Registered == [exists |-> TRUE, score |-> 0, last_seen |-> 0]

InitCore ==
  /\ players = [p \in Players |-> IF p = "p1" THEN Registered ELSE NoPlayer]
  /\ guesses = <<>>
  /\ price_feed = [usd |-> 0, ts |-> 0]
  /\ now = 0
  /\ req = [r \in Procs |-> IdleReq]
  /\ resp = NoResp
  /\ lastView = [g \in GuessIds |-> Null]
  /\ written = [g \in GuessIds |-> FALSE]
  /\ header = Null
  /\ cron = [pc |-> "idle", i |-> 0, price |-> 0, prev |-> "none", last |-> "none"]
  /\ client = ClientStart

NextCore ==
  \/ \E r \in Procs, gid \in GuessIds : TR_SelectGuess(r, gid) /\ NoObserve
  \/ \E r \in Procs : TR_SelectScoreResolved(r) /\ NoObserve
  \/ \E r \in Procs : TR_GetPrice(r) /\ NoObserve
  \/ \E r \in Procs : TR_UpdateGuess(r) /\ NoObserve
  \/ \E r \in Procs : TR_UpdateScore(r) /\ NoObserve
  \/ \E r \in Procs : TR_SelectScore(r) /\ NoObserve
  \/ \E r \in Procs, p \in Players, d \in BodyDirections : CG_SelectExisting(r, p, d) /\ NoObserve
  \/ \E r \in Procs : CG_GetPrice(r) /\ NoObserve
  \/ \E r \in Procs : CG_Insert(r) /\ NoObserve
  \/ \E res \in FetchResults : PF_Iteration(res) /\ NoObserve
  \/ \E t \in Instants : Tick(t) /\ NoObserve

SpecCore == InitCore /\ [][NextCore]_vars

\* the resolution core following a single guess row, over the wider prices
NoRowYet == guesses = <<>> /\ InFlightCreates = {}

NextOne ==
  \/ \E r \in Procs, gid \in GuessIds : TR_SelectGuess(r, gid) /\ NoObserve
  \/ \E r \in Procs : TR_SelectScoreResolved(r) /\ NoObserve
  \/ \E r \in Procs : TR_GetPrice(r) /\ NoObserve
  \/ \E r \in Procs : TR_UpdateGuess(r) /\ NoObserve
  \/ \E r \in Procs : TR_UpdateScore(r) /\ NoObserve
  \/ \E r \in Procs : TR_SelectScore(r) /\ NoObserve
  \/ \E r \in Procs, p \in Players, d \in BodyDirections :
        NoRowYet /\ CG_SelectExisting(r, p, d) /\ NoObserve
  \/ \E r \in Procs : CG_GetPrice(r) /\ NoObserve
  \/ \E r \in Procs : CG_Insert(r) /\ NoObserve
  \/ \E res \in FetchResultsOf(WidePrices) : PF_Iteration(res) /\ NoObserve
  \/ \E t \in Instants : Tick(t) /\ NoObserve

SpecOne == InitCore /\ [][NextOne]_vars

\* the calls that a throwing first statement may end
Calls ==
  {[op |-> "tryResolve", args |-> [playerId |-> "", direction |-> "", guessId |-> g]] :
     g \in GuessIds}
  \cup {[op |-> "createGuess", args |-> [playerId |-> p, direction |-> d, guessId |-> 0]] :
          p \in Players, d \in Directions}

\* the single-guess core with statements of env.DB that may throw
NextFault ==
  \/ \E r \in Procs, gid \in GuessIds : TR_SelectGuess(r, gid) /\ NoObserve
  \/ \E r \in Procs : TR_SelectScoreResolved(r) /\ NoObserve
  \/ \E r \in Procs : TR_GetPrice(r) /\ NoObserve
  \/ \E r \in Procs : TR_UpdateGuess(r) /\ NoObserve
  \/ \E r \in Procs : TR_UpdateScore(r) /\ NoObserve
  \/ \E r \in Procs : TR_SelectScore(r) /\ NoObserve
  \/ \E r \in Procs, p \in Players, d \in BodyDirections :
        NoRowYet /\ CG_SelectExisting(r, p, d) /\ NoObserve
  \/ \E r \in Procs : CG_GetPrice(r) /\ NoObserve
  \/ \E r \in Procs : CG_Insert(r) /\ NoObserve
  \/ \E r \in Procs, c \in Calls : FirstStatementThrows(r, c.op, c.args) /\ NoObserve
  \/ \E r \in Procs : StatementThrows(r) /\ NoObserve
  \/ \E res \in FetchResultsOf(WidePrices) : PF_Iteration(res) /\ NoObserve
  \/ \E t \in Instants : Tick(t) /\ NoObserve

SpecFault == InitCore /\ [][NextFault]_vars

\* the single-guess core behind the auth gate
NextAuth ==
  \/ \E r \in Procs, provided \in Secrets : Unauthorized(r, provided)
  \/ \E r \in Procs, gid \in GuessIds, provided \in Secrets :
        Authorized(provided) /\ TR_SelectGuess(r, gid)
  \/ \E r \in Procs : TR_SelectScoreResolved(r) /\ Inside
  \/ \E r \in Procs : TR_GetPrice(r) /\ Inside
  \/ \E r \in Procs : TR_UpdateGuess(r) /\ Inside
  \/ \E r \in Procs : TR_UpdateScore(r) /\ Inside
  \/ \E r \in Procs : TR_SelectScore(r) /\ Inside
  \/ \E r \in Procs, p \in Players, d \in BodyDirections, provided \in Secrets :
        Authorized(provided) /\ NoRowYet /\ CG_SelectExisting(r, p, d)
  \/ \E r \in Procs : CG_GetPrice(r) /\ Inside
  \/ \E r \in Procs : CG_Insert(r) /\ Inside
  \/ \E res \in FetchResults : PF_Iteration(res) /\ Inside
  \/ \E t \in Instants : Tick(t) /\ Inside

SpecAuth == InitCore /\ [][NextAuth]_vars

\* the price feed alone: the fetcher sets, GET /price gets
NextStore ==
  \/ \E x \in WidePrices : PF_SetPrice([usd |-> x, ts |-> now]) /\ NoObserve
  \/ \E r \in Procs : getPrice(r) /\ NoObserve
  \/ \E t \in Instants \cup RoundInstants : Tick(t) /\ NoObserve

SpecStore == Init /\ [][NextStore]_vars

\* one scheduled run of the price fetcher, with GET /price
NoHistory == UNCHANGED <<lastView, written, header, client>>

NextFetch ==
  \/ Scheduled /\ NoHistory
  \/ \E answers \in LoopAnswers : PF_FetchOnce(answers) /\ NoHistory
  \/ \E throws \in BOOLEAN : PF_Store(throws) /\ NoHistory
  \/ PF_Sleep /\ NoHistory
  \/ \E r \in Procs : getPrice(r) /\ NoObserve

SpecFetch == Init /\ [][NextFetch]_vars

\* one scheduled run with sources that may never settle; the run takes its steps whenever it
\* can (the runtime keeps scheduling the pending promise), a silent source never answers
NextFetchLive ==
  \/ Scheduled /\ NoHistory
  \/ \E answers \in SilentAnswers : PF_FetchOnce(answers) /\ NoHistory
  \/ \E throws \in BOOLEAN : PF_Store(throws) /\ NoHistory
  \/ PF_Sleep /\ NoHistory
  \/ \E r \in Procs : getPrice(r) /\ NoObserve

SpecFetchLive == Init /\ [][NextFetchLive]_vars /\ WF_vars(NextFetchLive)

\* every handler around a single guess row, the clock moving a round at a time
NextFrame ==
  \/ \E r \in Procs, gid \in GuessIds : TR_SelectGuess(r, gid) /\ NoObserve
  \/ \E r \in Procs : TR_SelectScoreResolved(r) /\ NoObserve
  \/ \E r \in Procs : TR_GetPrice(r) /\ NoObserve
  \/ \E r \in Procs : TR_UpdateGuess(r) /\ NoObserve
  \/ \E r \in Procs : TR_UpdateScore(r) /\ NoObserve
  \/ \E r \in Procs : TR_SelectScore(r) /\ NoObserve
  \/ \E r \in Procs : NoRowYet /\ CG_SelectExisting(r, "p1", "up") /\ NoObserve
  \/ \E r \in Procs : CG_GetPrice(r) /\ NoObserve
  \/ \E r \in Procs : CG_Insert(r) /\ NoObserve
  \/ \E r \in Procs, id \in Players : CP_CountActive(r, id) /\ NoObserve
  \/ \E r \in Procs : CP_Upsert(r) /\ NoObserve
  \/ \E r \in Procs : CP_SelectPlayer(r) /\ NoObserve
  \/ \E r \in Procs : CP_SelectPending(r) /\ NoObserve
  \/ \E r \in Procs, id \in Players : GP_Touch(r, id) /\ NoObserve
  \/ \E r \in Procs : GP_SelectPlayer(r) /\ NoObserve
  \/ \E r \in Procs : GP_Insert(r) /\ NoObserve
  \/ \E r \in Procs : GP_SelectPending(r) /\ NoObserve
  \/ \E res \in FetchResultsOf(TwoPrices) : PF_Iteration(res) /\ NoObserve
  \/ \E t \in RoundInstants : Tick(t) /\ NoObserve

SpecFrame == InitCore /\ [][NextFrame]_vars

\* a guess that keeps being polled: every awaited statement of a request settles, and
\* tryResolve is called on guess 1 again and again
StepOf(r) ==
  \/ TR_SelectScoreResolved(r) \/ TR_GetPrice(r) \/ TR_UpdateGuess(r)
  \/ TR_UpdateScore(r) \/ TR_SelectScore(r) \/ CG_GetPrice(r) \/ CG_Insert(r)

NextPoll ==
  \/ \E r \in Procs, gid \in GuessIds : TR_SelectGuess(r, gid) /\ NoObserve
  \/ \E r \in Procs : TR_SelectScoreResolved(r) /\ NoObserve
  \/ \E r \in Procs : TR_GetPrice(r) /\ NoObserve
  \/ \E r \in Procs : TR_UpdateGuess(r) /\ NoObserve
  \/ \E r \in Procs : TR_UpdateScore(r) /\ NoObserve
  \/ \E r \in Procs : TR_SelectScore(r) /\ NoObserve
  \/ \E r \in Procs, d \in Directions :
        NoRowYet /\ CG_SelectExisting(r, "p1", d) /\ NoObserve
  \/ \E r \in Procs : CG_GetPrice(r) /\ NoObserve
  \/ \E r \in Procs : CG_Insert(r) /\ NoObserve
  \/ \E res \in FetchResultsOf(RawPrices) : PF_Iteration(res) /\ NoObserve
  \/ \E t \in RoundInstants : Tick(t) /\ NoObserve

Polled ==
  /\ \A r \in Procs : WF_vars(StepOf(r) /\ NoObserve)
  /\ SF_vars(\E r \in Procs : TR_SelectGuess(r, 1) /\ NoObserve)

SpecPoll == InitCore /\ [][NextPoll]_vars /\ Polled

\* the resolution core following a single guess row, with the raw price of the last write
NextRound ==
  \/ \E r \in Procs, gid \in GuessIds : TR_SelectGuess(r, gid) /\ NoObserve
  \/ \E r \in Procs : TR_SelectScoreResolved(r) /\ NoObserve
  \/ \E r \in Procs : TR_GetPrice(r) /\ NoObserve
  \/ \E r \in Procs : TR_UpdateGuess(r) /\ NoObserve
  \/ \E r \in Procs : TR_UpdateScore(r) /\ NoObserve
  \/ \E r \in Procs : TR_SelectScore(r) /\ NoObserve
  \/ \E r \in Procs, d \in Directions :
        NoRowYet /\ CG_SelectExisting(r, "p1", d) /\ NoObserve
  \/ \E r \in Procs : CG_GetPrice(r) /\ NoObserve
  \/ \E r \in Procs : CG_Insert(r) /\ NoObserve
  \/ \E x \in WidePrices : PF_FetchStore(x) /\ NoHistory
  \/ \E t \in Instants : Tick(t) /\ NoObserve

SpecRound == InitCore /\ [][NextRound]_vars

\* players who enter through createOrUpdatePlayer only, within one day
NextGate ==
  \/ \E r \in Procs, id \in Players : CP_CountActive(r, id) /\ NoObserve
  \/ \E r \in Procs : CP_Upsert(r) /\ NoObserve
  \/ \E r \in Procs : CP_SelectPlayer(r) /\ NoObserve
  \/ \E r \in Procs : CP_SelectPending(r) /\ NoObserve
  \/ \E t \in Instants : Tick(t) /\ NoObserve

SpecGate == Init /\ [][NextGate]_vars

\* every reader of the price feed beside its writer, for one player and one guess row
NextFeed ==
  \/ \E r \in Procs, gid \in GuessIds : TR_SelectGuess(r, gid) /\ NoObserve
  \/ \E r \in Procs : TR_SelectScoreResolved(r) /\ NoObserve
  \/ \E r \in Procs : TR_GetPrice(r) /\ NoObserve
  \/ \E r \in Procs : TR_UpdateGuess(r) /\ NoObserve
  \/ \E r \in Procs : TR_UpdateScore(r) /\ NoObserve
  \/ \E r \in Procs : TR_SelectScore(r) /\ NoObserve
  \/ \E r \in Procs : NoRowYet /\ CG_SelectExisting(r, "p1", "up") /\ NoObserve
  \/ \E r \in Procs : CG_GetPrice(r) /\ NoObserve
  \/ \E r \in Procs : CG_Insert(r) /\ NoObserve
  \/ \E r \in Procs : CP_CountActive(r, "p1") /\ NoObserve
  \/ \E r \in Procs : CP_Upsert(r) /\ NoObserve
  \/ \E r \in Procs : CP_SelectPlayer(r) /\ NoObserve
  \/ \E r \in Procs : CP_SelectPending(r) /\ NoObserve
  \/ \E r \in Procs : GP_Touch(r, "p1") /\ NoObserve
  \/ \E r \in Procs : GP_SelectPlayer(r) /\ NoObserve
  \/ \E r \in Procs : GP_Insert(r) /\ NoObserve
  \/ \E r \in Procs : GP_SelectPending(r) /\ NoObserve
  \/ \E r \in Procs : getPrice(r) /\ NoObserve
  \/ pump /\ NoObserve
  \/ \E x \in TwoPrices : PF_SetPrice([usd |-> x, ts |-> now]) /\ NoObserve
  \/ \E t \in RoundInstants : Tick(t) /\ NoObserve

SpecFeed == Init /\ [][NextFeed]_vars

\* round after round of one player: two guess rows, the clock moving a round at a time
NextAgain ==
  \/ \E r \in Procs, gid \in GuessIds : TR_SelectGuess(r, gid) /\ NoObserve
  \/ \E r \in Procs : TR_SelectScoreResolved(r) /\ NoObserve
  \/ \E r \in Procs : TR_GetPrice(r) /\ NoObserve
  \/ \E r \in Procs : TR_UpdateGuess(r) /\ NoObserve
  \/ \E r \in Procs : TR_UpdateScore(r) /\ NoObserve
  \/ \E r \in Procs : TR_SelectScore(r) /\ NoObserve
  \/ \E r \in Procs, d \in Directions : CG_SelectExisting(r, "p1", d) /\ NoObserve
  \/ \E r \in Procs : CG_GetPrice(r) /\ NoObserve
  \/ \E r \in Procs : CG_Insert(r) /\ NoObserve
  \/ \E res \in FetchResultsOf(TwoPrices) : PF_Iteration(res) /\ NoObserve
  \/ \E t \in RoundInstants : Tick(t) /\ NoObserve

SpecAgain == InitCore /\ [][NextAgain]_vars

\* one call of fetchBtcPrice, over the wider answers
InitSources ==
  /\ Init!1 /\ Init!2 /\ Init!3 /\ Init!4 /\ Init!5 /\ Init!6 /\ Init!7 /\ Init!8 /\ Init!9
  /\ cron = [pc |-> "fetch", i |-> 0, price |-> 0, prev |-> "none", last |-> "none"]
  /\ client = ClientStart

NextSources == \E answers \in WideAnswers : PF_FetchOnce(answers) /\ NoHistory

SpecSources == InitSources /\ [][NextSources]_vars

\* the resolution core with the history of the already-resolved branch, for one direction
NextIdem ==
  \/ \E r \in Procs, gid \in GuessIds : TR_SelectGuess(r, gid) /\ Observe
  \/ \E r \in Procs : TR_SelectScoreResolved(r) /\ Observe
  \/ \E r \in Procs : TR_GetPrice(r) /\ Observe
  \/ \E r \in Procs : TR_UpdateGuess(r) /\ Observe
  \/ \E r \in Procs : TR_UpdateScore(r) /\ Observe
  \/ \E r \in Procs : TR_SelectScore(r) /\ Observe
  \/ \E r \in Procs : CG_SelectExisting(r, "p1", "up") /\ Observe
  \/ \E r \in Procs : CG_GetPrice(r) /\ Observe
  \/ \E r \in Procs : CG_Insert(r) /\ Observe
  \/ \E res \in FetchResultsOf(TwoPrices) : PF_Iteration(res) /\ Observe
  \/ \E t \in RoundInstants : Tick(t) /\ Observe

SpecIdem == InitCore /\ [][NextIdem]_vars

\* the player registry alone: admission, lookup by id, and the clock around midnight
NextAdmit ==
  \/ \E r \in Procs, id \in Players \cup {""} : CP_CountActive(r, id) /\ NoObserve
  \/ \E r \in Procs : CP_Upsert(r) /\ NoObserve
  \/ \E r \in Procs : CP_SelectPlayer(r) /\ NoObserve
  \/ \E r \in Procs : CP_SelectPending(r) /\ NoObserve
  \/ \E r \in Procs, id \in Players : GP_Touch(r, id) /\ NoObserve
  \/ \E r \in Procs : GP_SelectPlayer(r) /\ NoObserve
  \/ \E r \in Procs : GP_Insert(r) /\ NoObserve
  \/ \E r \in Procs : GP_SelectPending(r) /\ NoObserve
  \/ \E t \in DayInstants : Tick(t) /\ NoObserve

SpecAdmit == Init /\ [][NextAdmit]_vars

\* ------------------------------------------------------------- the claims

\* the sum of one delta per resolved guess of player p among the first n guess rows
RECURSIVE DeltaSum(_, _)
DeltaSum(p, n) ==
  IF n = 0 THEN 0
  ELSE DeltaSum(p, n - 1) +
       (IF guesses[n].player_id = p /\ guesses[n].status = "resolved"
          THEN (IF guesses[n].outcome = Some("correct") THEN 1 ELSE 0 - 1)
          ELSE 0)

\* C1: the score delta of a guess is applied exactly once in total, also when tryResolve
\* calls on the same pending guess interleave: whenever no resolution of a guess of the
\* player is between its two UPDATEs, the player's score is the sum of one delta (+1 for
\* correct, -1 for wrong) per resolved guess of the player.
C1_DeltaAppliedOnce ==
  \A p \in Players :
    /\ players[p].exists
    /\ ~\E r \in Procs : req[r].pc = "tr_update_score" /\ req[r].guess.player_id = p
    => players[p].score = DeltaSum(p, Len(guesses))

\* C2: in every reachable state each player has at most one guess with status pending.
C2_OnePendingPerPlayer == \A p \in Players : Cardinality(PendingOf(p)) <= 1

\* C3: pending -> resolved is the only status transition and resolved is terminal: no step
\* changes the status, outcome, resolution price or resolution timestamp of a resolved guess,
\* and no step takes a guess to a status other than from pending to resolved.
C3_ResolvedIsTerminal ==
  [][\A g \in DOMAIN guesses :
       /\ guesses[g].status = "resolved" =>
            /\ guesses'[g].status = "resolved"
            /\ guesses'[g].outcome = guesses[g].outcome
            /\ guesses'[g].price_at_resolve = guesses[g].price_at_resolve
            /\ guesses'[g].resolved_at = guesses[g].resolved_at
       /\ guesses'[g].status # guesses[g].status =>
            guesses[g].status = "pending" /\ guesses'[g].status = "resolved"]_vars

\* C4: a tryResolve call that finds the guess already resolved writes nothing: neither of
\* its two steps (reading the row, reading the score and returning) changes a guess row, a
\* player's score or last_seen, or the price feed.
C4_ResolvedCallWritesNothing ==
  [][\A r \in Procs :
       /\ req'[r] # req[r]
       /\ req[r].pc = "tr_resolved_score" \/ req'[r].pc = "tr_resolved_score"
       => UNCHANGED <<players, guesses, price_feed>>]_vars

\* a call on a resolved guess has returned its stored result
C4_Witness ==
  /\ resp.via = "TR_AlreadyResolved"
  /\ resp.body.status = "resolved"
  /\ guesses[resp.args.guessId].status = "resolved"

C6_ResolvesByDirection ==
  [][\A r \in Procs :
       LET guess == req[r].guess
           gid == req[r].guessId
           owner == guess.player_id
           cur == req[r].currentPrice
           won == \/ guess.direction = "up" /\ cur > guess.price_at_guess
                  \/ guess.direction = "down" /\ cur < guess.price_at_guess
       IN
       req'[r] # req[r] =>
         /\ ( /\ req[r].pc = "tr_price"
              /\ price_feed.usd # 0
              /\ roundPrice(price_feed.usd) # guess.price_at_guess )
            => /\ req'[r].pc = "tr_update_guess"
               /\ req'[r].currentPrice = roundPrice(price_feed.usd)
               /\ UNCHANGED <<players, guesses, price_feed>>
         /\ req[r].pc = "tr_update_guess"
            => /\ guesses'[gid].status = "resolved"
               /\ guesses'[gid].outcome = Some(IF won THEN "correct" ELSE "wrong")
               /\ guesses'[gid].price_at_resolve = Some(cur)
               /\ cur # guess.price_at_guess
               /\ UNCHANGED <<players, price_feed>>
         /\ req[r].pc = "tr_update_score"
            => /\ players'[owner].score = players[owner].score + (IF won THEN 1 ELSE 0 - 1)
               /\ UNCHANGED <<guesses, price_feed>>
         /\ req[r].pc = "tr_select_score"
            => /\ resp'.code = 200
               /\ resp'.body = [id |-> gid, status |-> "resolved",
                                outcome |-> Some(IF won THEN "correct" ELSE "wrong"),
                                score |-> Some(players[owner].score), currentPrice |-> Some(cur),
                                reason |-> Null, secondsLeft |-> Null]
               /\ UNCHANGED <<players, guesses, price_feed>>]_vars

\* a call has resolved a guess as wrong and returned the score -1
C6_Witness ==
  /\ resp.via = "TR_Resolved"
  /\ resp.body.outcome = Some("wrong")
  /\ resp.body.score = Some(0 - 1)
  /\ guesses[resp.body.id].direction = "down"
  /\ resp.body.currentPrice[1] > guesses[resp.body.id].price_at_guess

\* the step starts tryResolve(g): either the call goes on, or it returns at once
TRStart(g) ==
  \/ \E r \in Procs : /\ req[r].pc = "idle" /\ req'[r].pc # "idle"
                      /\ req'[r].op = "tryResolve" /\ req'[r].guessId = g
  \/ req' = req /\ resp'.op = "tryResolve" /\ resp'.args.guessId = g

\* C7: tryResolve on a pending guess with e < 60 whole seconds elapsed returns pending with
\* reason timer and secondsLeft = 60 - e, an integer in 1..60, whatever the price feed holds,
\* and writes nothing.
C7_TimerBeforeSixty ==
  [][\A g \in DOMAIN guesses :
       LET e == now - guesses[g].guessed_at IN
       TRStart(g) /\ guesses[g].status = "pending" /\ e < 60
       => /\ req' = req
          /\ resp'.code = 200
          /\ resp'.body = [id |-> g, status |-> "pending", outcome |-> Null, score |-> Null,
                           currentPrice |-> Null, reason |-> Some("timer"),
                           secondsLeft |-> Some(60 - e)]
          /\ 60 - e \in 1 .. 60
          /\ UNCHANGED <<players, guesses, price_feed>>]_vars

\* a call returned timer with one second left although the price has moved
C7_Witness ==
  /\ resp.via = "TR_Timer"
  /\ resp.body.secondsLeft = Some(1)
  /\ price_feed.usd # 0
  /\ price_feed.usd # guesses[resp.body.id].price_at_guess

\* C8: a tryResolve call on a pending guess with elapsed >= 60 that reads a price equal to
\* the entry price returns pending with reason awaiting_price_change and writes nothing,
\* however large the elapsed time; and no guess is ever resolved at its entry price.
C8_WaitsForPriceChange ==
  /\ [](\A g \in DOMAIN guesses :
          guesses[g].status = "resolved" => guesses[g].price_at_resolve # Some(guesses[g].price_at_guess))
  /\ [][\A r \in Procs :
          /\ req[r].pc = "tr_price" /\ req'[r] # req[r]
          /\ now - req[r].guess.guessed_at >= 60
          /\ price_feed.usd # 0
          /\ roundPrice(price_feed.usd) = req[r].guess.price_at_guess
          => /\ resp'.code = 200
             /\ resp'.body = [id |-> req[r].guessId, status |-> "pending", outcome |-> Null,
                              score |-> Null, currentPrice |-> Null,
                              reason |-> Some("awaiting_price_change"), secondsLeft |-> Null]
             /\ UNCHANGED <<players, guesses, price_feed>>]_vars

\* a call returned awaiting_price_change more than 60 s after the submission
C8_Witness ==
  /\ resp.via = "TR_AwaitingPriceChange"
  /\ guesses[resp.body.id].status = "pending"
  /\ now - guesses[resp.body.id].guessed_at > 60

\* C9: a tryResolve call on a pending guess with elapsed >= 60, made while the price feed
\* holds no price, returns pending with reason price_unavailable and a null secondsLeft,
\* and writes nothing.
C9_PriceUnavailable ==
  [][\A r \in Procs :
       /\ req[r].pc = "tr_price" /\ req'[r] # req[r]
       /\ now - req[r].guess.guessed_at >= 60
       /\ price_feed.usd = 0
       => /\ resp'.code = 200
          /\ resp'.body = [id |-> req[r].guessId, status |-> "pending", outcome |-> Null,
                           score |-> Null, currentPrice |-> Null,
                           reason |-> Some("price_unavailable"), secondsLeft |-> Null]
          /\ UNCHANGED <<players, guesses, price_feed>>]_vars

\* a call returned price_unavailable for a pending guess whose timer has elapsed
C9_Witness ==
  /\ resp.via = "TR_PriceUnavailable"
  /\ price_feed.usd = 0
  /\ guesses[resp.body.id].status = "pending"
  /\ now - guesses[resp.body.id].guessed_at >= 60

\* C10: the entry price of a new guess, stored and returned, is the normalized value the
\* price feed held when the submit read it, whatever the player id and the direction.
C10_EntryPriceFromStore ==
  [][\A r \in Procs :
       req'[r] # req[r] =>
         /\ req[r].pc = "cg_price" /\ price_feed.usd # 0
            => /\ req'[r].pc = "cg_insert"
               /\ req'[r].currentPrice = roundPrice(price_feed.usd)
         /\ req[r].pc = "cg_insert" /\ players[req[r].playerId].exists
            => /\ Len(guesses') = Len(guesses) + 1
               /\ guesses'[Len(guesses')].price_at_guess = req[r].currentPrice
               /\ resp'.code = 201
               /\ resp'.body.priceAtGuess = req[r].currentPrice]_vars

\* a guess was created at the price read, and the feed has moved before the insert
C10_Witness ==
  /\ resp.via = "CG_Created"
  /\ guesses[resp.body.id].price_at_guess = resp.body.priceAtGuess
  /\ guesses[resp.body.id].direction = "down"
  /\ price_feed.usd # resp.body.priceAtGuess

\* the step starts createGuess with a valid body for player p: the call goes on, or returns at once
CGStart(p) ==
  \/ \E r \in Procs : /\ req[r].pc = "idle" /\ req'[r].pc # "idle"
                      /\ req'[r].op = "createGuess" /\ req'[r].playerId = p
  \/ /\ req' = req /\ resp'.op = "createGuess"
     /\ resp'.args.playerId = p /\ resp'.args.direction \in Directions

\* C11: a submit whose pending-guess check finds a pending guess of the player returns 409
\* with the id of a pending guess of that player as existingGuessId, creates no guess row and
\* changes no table, whether or not the price feed holds a price.
C11_PendingRejected ==
  [][\A p \in Players :
       CGStart(p) /\ PendingOf(p) # {}
       => /\ req' = req
          /\ resp'.code = 409
          /\ resp'.body.existingGuessId \in PendingOf(p)
          /\ UNCHANGED <<players, guesses, price_feed>>]_vars

\* a submit was rejected with 409 while the price feed held no price
C11_Witness ==
  /\ resp.via = "CG_InProgress"
  /\ price_feed.usd = 0
  /\ resp.body.existingGuessId \in PendingOf(resp.args.playerId)

\* C12: a submit that found no pending guess of the player and reads the price feed while it
\* holds no price returns 503 and creates no guess row.
C12_NoPriceNoGuess ==
  [][\A r \in Procs :
       req[r].pc = "cg_price" /\ req'[r] # req[r] /\ price_feed.usd = 0
       => /\ req'[r].pc = "idle"
          /\ resp'.code = 503
          /\ UNCHANGED <<players, guesses, price_feed>>]_vars

\* a submit was answered 503 after an earlier round: the feed has lost its price since
C12_Witness ==
  /\ resp.via = "CG_PriceUnavailable"
  /\ PendingOf(resp.args.playerId) = {}
  /\ Len(guesses) = 1
  /\ price_feed.usd = 0

\* the player was last active within the 24 h before now
InWindow(id) == players[id].exists /\ players[id].last_seen > cutoff

OthersInWindow(id) == Cardinality({q \in Players : q # id /\ InWindow(q)})

\* the step starts createOrUpdatePlayer(id): the call goes on, or returns at once
CPStart(id) ==
  \/ \E r \in Procs : /\ req[r].pc = "idle" /\ req'[r].pc # "idle"
                      /\ req'[r].op = "createOrUpdatePlayer" /\ req'[r].playerId = id
  \/ req' = req /\ resp'.op = "createOrUpdatePlayer" /\ resp'.args.playerId = id

\* C13: with maximum N, a createOrUpdatePlayer call by a player who was not active within the
\* last 24 h, made while N or more other players were, is answered 503 with the count of
\* those players and the maximum, creates no player and refreshes no last_seen.
C13_FullHouseRejects ==
  [][\A id \in Players :
       CPStart(id) /\ ~InWindow(id) /\ OthersInWindow(id) >= MAX_PLAYERS
       => /\ req' = req
          /\ resp'.code = 503
          /\ resp'.body.activeUsers = OthersInWindow(id)
          /\ resp'.body.maxUsers = MAX_PLAYERS
          /\ UNCHANGED players]_vars

\* C14: createOrUpdatePlayer answers 503 only if the players active within the last 24 h are
\* at or above the maximum and the requesting player is not one of them; a player who is
\* active is admitted when refreshing.
C14_RejectsOnlyOutsiders ==
  [][\A id \in Players :
       CPStart(id) /\ resp'.code = 503
       => /\ Cardinality({q \in Players : InWindow(q)}) >= MAX_PLAYERS
          /\ ~InWindow(id)]_vars

\* the delta that the stored outcome of guess g stands for
DeltaOf(g) == IF guesses[g].outcome = Some("correct") THEN 1 ELSE 0 - 1

\* C15: resolution is one atomic step for other requests: no tryResolve call returns a guess
\* as resolved together with the score its owner has without the delta of that guess (the
\* sum of the deltas of the owner's other resolved guesses).
C15_ResolvedWithItsDelta ==
  \A g \in DOMAIN guesses :
    resp.via = "TR_AlreadyResolved" /\ resp.args.guessId = g /\ guesses[g].status = "resolved"
    => resp.body.score # Some(DeltaSum(guesses[g].player_id, Len(guesses)) - DeltaOf(g))

\* C16: every guess-status response (200 of tryResolve) keeps the null-field contract: score
\* and currentPrice are non-null only if status is resolved, reason and secondsLeft are
\* non-null only if status is pending, and secondsLeft is non-null only if reason is timer.
C16_NullFieldContract ==
  resp.op = "tryResolve" /\ resp.code = 200
  => LET b == resp.body IN
     /\ b.score # Null \/ b.currentPrice # Null => b.status = "resolved"
     /\ b.reason # Null \/ b.secondsLeft # Null => b.status = "pending"
     /\ b.secondsLeft # Null => b.reason = Some("timer")

\* a resolving call returned score and price and neither reason nor countdown
C16_Witness ==
  /\ resp.via = "TR_Resolved"
  /\ resp.body.score # Null /\ resp.body.currentPrice # Null
  /\ resp.body.reason = Null /\ resp.body.secondsLeft = Null

\* C17: a statement of env.DB that throws during a handler is answered 500, never another
\* status such as 404.
C17_FailureIs500 == resp.via = "DbError" => resp.code = 500

\* C18: tryResolve on an id that no guess row has is answered 404 at once and writes nothing.
C18_MissingGuessNotFound ==
  [][\A g \in GuessIds :
       TRStart(g) /\ g \notin DOMAIN guesses
       => /\ req' = req
          /\ resp'.code = 404
          /\ UNCHANGED <<players, guesses, price_feed>>]_vars

\* a call on an id without a row was answered 404 while another guess exists
C18_Witness ==
  /\ resp.via = "TR_NotFound"
  /\ resp.code = 404
  /\ guesses # <<>>
  /\ resp.args.guessId \notin DOMAIN guesses

C20_ReadAfterWrite ==
  /\ getPriceFromDb.isNull
  /\ [][IF resp'.op = "setPriceInDb"
          THEN getPriceFromDb' = [isNull |-> FALSE, usd |-> roundPrice(resp'.body.usd),
                                  ts |-> resp'.body.ts]
          ELSE price_feed' = price_feed]_vars

\* the answer is no strictly positive number
NoPrice(a) == a.kind # "value" \/ a.price <= 0

\* C21: when every source fails in one call of fetchBtcPrice, the iteration goes to its end
\* without a write: the price feed keeps its value and timestamp and getPriceFromDb answers
\* as before; only the write of an iteration that fetched a price changes the price feed.
C21_FailedFetchKeepsStore ==
  [][/\ ( /\ cron.pc = "fetch" /\ cron' # cron
          /\ \A k \in 1 .. 3 : NoPrice(resp'.body.answers[k]) )
        => /\ cron'.pc = "sleep"
           /\ ~resp'.body.ok
           /\ price_feed' = price_feed
           /\ getPriceFromDb' = getPriceFromDb
     /\ price_feed' # price_feed => cron.pc = "store" /\ resp'.via = "PF_Stored"]_vars

\* every source failed in a later iteration and the sample of an earlier one is kept
C21_Witness ==
  /\ resp.via = "PF_AllFailed"
  /\ price_feed.usd # 0
  /\ price_feed.ts < now

\* C22: fetchBtcPrice returns the price of the first source, in the order Kraken, Binance,
\* CoinGecko, that yields a strictly positive number, calls no source after it, and throws
\* after calling all three when none does.
C22_FirstPositiveWins ==
  [][cron.pc = "fetch" /\ cron' # cron
     => LET a == resp'.body.answers
            W == {k \in 1 .. 3 : ~NoPrice(a[k])}
        IN IF W = {}
             THEN ~resp'.body.ok /\ resp'.body.called = 3 /\ cron'.pc = "sleep"
             ELSE LET w == CHOOSE k \in W : \A j \in W : k <= j IN
                  /\ resp'.body.ok
                  /\ resp'.body.price = a[w].price
                  /\ resp'.body.called = w
                  /\ cron'.pc = "store" /\ cron'.price = a[w].price]_vars

\* Kraken answered a negative value, Binance won, CoinGecko had another price and was not called
C22_Witness ==
  /\ resp.via = "PF_Fetched"
  /\ resp.body.called = 2
  /\ resp.body.answers[1].kind = "value" /\ resp.body.answers[1].price < 0
  /\ ~NoPrice(resp.body.answers[3])
  /\ resp.body.answers[3].price # resp.body.price

\* C23: a run of the loop ends only after its last iteration: an iteration whose fetch fails or
\* whose write throws goes on to its sleep like any other, the sleep leads to the next
\* iteration, and the write of a later iteration sets the price feed to the price it fetched.
C23_LoopSurvivesFailures ==
  /\ [](cron.pc = "done" => cron.i = CRON_ITERATIONS - 1)
  /\ [][/\ cron.pc = "fetch" /\ cron' # cron /\ ~resp'.body.ok
           => cron'.pc = "sleep" /\ cron'.i = cron.i
        /\ cron.pc = "store" /\ cron' # cron
           => /\ cron'.pc = "sleep" /\ cron'.i = cron.i
              /\ resp'.via = "PF_Stored"
                 => price_feed' = [usd |-> roundPrice(cron.price), ts |-> now]
        /\ cron.pc = "sleep" /\ cron' # cron
           => IF cron.i < CRON_ITERATIONS - 1
                THEN cron'.pc = "fetch" /\ cron'.i = cron.i + 1
                ELSE cron'.pc = "done"]_vars

\* the last iteration has stored its price after the iteration before it failed
C23_Witness ==
  /\ resp.via = "PF_Stored"
  /\ cron.i = CRON_ITERATIONS - 1
  /\ cron.prev = "failed"
  /\ price_feed.ts = now

\* C24: every call of a source is bounded by a timeout, so a scheduled run that has started
\* always comes to its end, also when a source never answers.
C24_RunTerminates == cron.pc = "fetch" ~> cron.pc = "done"

\* C25: resolution is pull-based: the row of an existing guess and the score of a player
\* change only in the two UPDATE steps of a tryResolve call; no write of the price feed, no
\* submit, admission or lookup of a player and no passage of time changes them.
C25_OnlyTryResolveSettles ==
  [][(\/ \E g \in DOMAIN guesses : guesses'[g] # guesses[g]
      \/ \E p \in Players : players'[p].score # players[p].score)
     => \E r \in Procs :
          /\ req[r].op = "tryResolve"
          /\ req[r].pc \in {"tr_update_guess", "tr_update_score"}
          /\ req'[r] # req[r]]_vars

\* a guess is still pending two rounds after its submission, the price has moved, and its
\* owner has just been looked up
C25_Witness ==
  /\ resp.via = "GP_Ok"
  /\ resp.body.pendingGuess # Null
  /\ guesses[1].status = "pending"
  /\ now - guesses[1].guessed_at >= 2 * ROUND_SECONDS
  /\ price_feed.usd # 0 /\ price_feed.usd # guesses[1].price_at_guess

\* C26: a createOrUpdatePlayer call that passed the capacity gate creates the player with
\* score 0 if absent and otherwise only sets last_seen, leaving the score and every other
\* row alone; it returns the score it read and a pending guess of the player if there is one
\* when it looks, null otherwise.
C26_AdmitCreatesOrRefreshes ==
  [][\A r \in Procs :
       LET id == req[r].playerId IN
       req'[r] # req[r] =>
         /\ req[r].pc = "cp_upsert"
            => /\ players'[id].exists /\ players'[id].last_seen = now
               /\ players'[id].score = (IF players[id].exists THEN players[id].score ELSE 0)
               /\ \A q \in Players \ {id} : players'[q] = players[q]
               /\ UNCHANGED <<guesses, price_feed>>
         /\ req[r].pc = "cp_select"
            => /\ req'[r].score = players[id].score
               /\ UNCHANGED <<players, guesses, price_feed>>
         /\ req[r].pc = "cp_pending"
            => /\ resp'.code = 200
               /\ resp'.body.id = id
               /\ resp'.body.score = req[r].score
               /\ IF PendingOf(id) = {}
                    THEN resp'.body.pendingGuess = Null
                    ELSE \E g \in PendingOf(id) : resp'.body.pendingGuess = Some(guesses[g])
               /\ UNCHANGED <<players, guesses, price_feed>>]_vars

\* a known player with score -1 was refreshed a round later and got the score back
C26_Witness ==
  /\ resp.via = "CP_Ok"
  /\ resp.body.score = 0 - 1
  /\ resp.body.pendingGuess = Null
  /\ players[resp.body.id].last_seen = now
  /\ now > 0

\* C27: getPlayer always answers with the player: while the requests in flight are getPlayer
\* calls only, every answer of a getPlayer call is a 200 with the id and the score, whatever
\* the interleaving of the calls.
C27_TouchAlwaysSucceeds ==
  (/\ resp.op = "getPlayer"
   /\ \A r \in Procs : req[r].op \in {"none", "getPlayer"})
  => /\ resp.code = 200
     /\ resp.body.id = resp.args.playerId
     /\ players[resp.args.playerId].exists

\* the price that the store gives is there and is not the entry price of guess 1
Moved ==
  /\ Len(guesses) >= 1
  /\ ~getPriceFromDb.isNull
  /\ getPriceFromDb.usd # guesses[1].price_at_guess

\* the round of guess 1 is over
Elapsed == Len(guesses) >= 1 /\ now - guesses[1].guessed_at >= ROUND_SECONDS

Cents(usd) == usd % 10 = 0

\* C29: every write of the price store stores the raw price rounded to cents; the entry
\* price of every guess and the current price that tryResolve compares are whole cents;
\* and when the raw price of the last write rounds to the entry price of the guess,
\* tryResolve finds the price unchanged: it answers awaiting_price_change and writes nothing.
C29_SubCentIsUnchanged ==
  [][/\ resp'.op = "setPriceInDb"
        => price_feed'.usd = roundPrice(cron'.price) /\ Cents(price_feed'.usd)
     /\ \A g \in DOMAIN guesses' : Cents(guesses'[g].price_at_guess)
     /\ \A r \in Procs : Cents(req'[r].currentPrice)
     /\ \A r \in Procs :
          (/\ req[r].pc = "tr_price" /\ req'[r] # req[r]
           /\ cron.price > 0
           /\ roundPrice(cron.price) = req[r].guess.price_at_guess)
          => /\ resp'.via = "TR_AwaitingPriceChange"
             /\ resp'.code = 200
             /\ UNCHANGED db]_vars

\* the source gave 100.004 after a guess entered at 100.00, and the poll after the round
\* was answered awaiting_price_change
C29_Witness ==
  /\ resp.via = "TR_AwaitingPriceChange"
  /\ cron.price = 100004
  /\ guesses[resp.args.guessId].price_at_guess = 100000
  /\ guesses[resp.args.guessId].status = "pending"

\* C30: every resolved guess row has an outcome, a resolution price and a resolution
\* time, its resolution price is not its entry price, its outcome is correct exactly if
\* its direction is the sign of the move from the entry to the resolution price, and it
\* was resolved 60 s or more after it was made; every other row is pending with the three
\* fields null.
C30_RowsWellFormed ==
  \A g \in DOMAIN guesses :
    LET row == guesses[g] IN
    IF row.status = "resolved"
      THEN /\ row.outcome \in {Some("correct"), Some("wrong")}
           /\ row.price_at_resolve # Null
           /\ row.resolved_at # Null
           /\ row.price_at_resolve[1] # row.price_at_guess
           /\ row.outcome = Some("correct")
              <=> \/ row.direction = "up" /\ row.price_at_resolve[1] > row.price_at_guess
                  \/ row.direction = "down" /\ row.price_at_resolve[1] < row.price_at_guess
           /\ row.resolved_at[1] - row.guessed_at >= ROUND_SECONDS
      ELSE /\ row.status = "pending"
           /\ row.outcome = Null /\ row.price_at_resolve = Null /\ row.resolved_at = Null

\* a guess on a fall entered at 100.00 stands resolved as correct at 99.99, a second
\* after the end of its round
C30_Witness ==
  /\ Len(guesses) = 1
  /\ guesses[1].status = "resolved"
  /\ guesses[1].direction = "down"
  /\ guesses[1].outcome = Some("correct")
  /\ guesses[1].price_at_guess = 100000
  /\ guesses[1].price_at_resolve = Some(99990)
  /\ guesses[1].resolved_at = Some(guesses[1].guessed_at + ROUND_SECONDS + 1)

\* C31: where players enter through createOrUpdatePlayer only, the players last active
\* within the last 24 h are never more than the maximum, whatever the interleaving of the
\* calls.
C31_NeverOverCapacity == Cardinality({q \in Players : InWindow(q)}) <= MAX_PLAYERS

\* C32: every price written to the price feed is strictly positive, and once
\* getPriceFromDb has a price to give it has one after every later step, whatever strictly
\* positive price an iteration of the fetcher stores.
C32_PriceStaysAvailable ==
  [][/\ resp'.op = "setPriceInDb" => price_feed'.usd > 0
     /\ ~getPriceFromDb.isNull => ~getPriceFromDb'.isNull]_vars

AllResolved(p) ==
  \A g \in DOMAIN guesses : guesses[g].player_id = p => guesses[g].status = "resolved"

\* C34: resolved guesses do not block a submit: a createGuess call with a valid direction
\* whose check is made while every guess of the player is resolved goes on to the price;
\* with a price to lock it goes on to the INSERT; and the INSERT for a known player answers
\* 201 and adds exactly one pending row with that price, leaving the earlier rows, the
\* players and the price feed as they were.
C34_ResolvedNeverBlocks ==
  [][/\ \A p \in Players :
          CGStart(p) /\ AllResolved(p)
          => /\ \E r \in Procs : req'[r].pc = "cg_price" /\ req'[r].playerId = p
             /\ UNCHANGED db
     /\ \A r \in Procs :
          req[r].pc = "cg_price" /\ req'[r] # req[r] /\ price_feed.usd # 0
          => /\ req'[r].pc = "cg_insert"
             /\ UNCHANGED db
     /\ \A r \in Procs :
          req[r].pc = "cg_insert" /\ req'[r] # req[r] /\ players[req[r].playerId].exists
          => /\ resp'.code = 201
             /\ Len(guesses') = Len(guesses) + 1
             /\ \A g \in DOMAIN guesses : guesses'[g] = guesses[g]
             /\ guesses'[Len(guesses')].status = "pending"
             /\ guesses'[Len(guesses')].player_id = req[r].playerId
             /\ guesses'[Len(guesses')].direction = req[r].direction
             /\ guesses'[Len(guesses')].price_at_guess = req[r].currentPrice
             /\ resp'.body.priceAtGuess = req[r].currentPrice
             /\ UNCHANGED <<players, price_feed>>]_vars

\* the second guess of a player was created after the first was resolved and scored
C34_Witness ==
  /\ resp.via = "CG_Created"
  /\ Len(guesses) = 2
  /\ guesses[1].status = "resolved" /\ guesses[2].status = "pending"
  /\ guesses[1].player_id = guesses[2].player_id
  /\ players[guesses[2].player_id].score # 0

\* the phases of a round in progress
InRound == {"guessing", "waiting", "validating"}

\* C35: the store starts a guess-status request only in a price message, for its pending
\* guess, when 60 s have passed on its own clock since the guess and the price of the
\* message is not the entry price; and its phase becomes 'resolved' only as a response with
\* status resolved is applied, with the outcome, the final price and the score (if the
\* response has one) of that response.
C35_ServerDecides ==
  [][/\ \A g \in ClientGuessIds :
          client'.polls[g] > client.polls[g]
          => /\ client'.event.name = "poll" /\ client'.event.id = g
             /\ client.pendingGuess # Null
             /\ client.pendingGuess[1].id = g
             /\ client.clock - client.pendingGuess[1].guessedAt >= 60 * 1000
             /\ client'.price # client.pendingGuess[1].priceAtGuess
     /\ client'.phase = "resolved" /\ client.phase # "resolved"
        => /\ client'.event.name = "status_applied"
           /\ client'.event.data[1].status = "resolved"
           /\ client'.resolution[1].outcome = client'.event.data[1].outcome[1]
           /\ client'.resolution[1].finalPrice = client'.event.data[1].currentPrice[1]
           /\ client'.score = (IF client'.event.data[1].score = Null
                                 THEN client.score ELSE client'.event.data[1].score[1])]_vars

\* the second round of the page was resolved by a response, with the score of the response
C35_Witness ==
  /\ client.event.name = "status_applied"
  /\ client.event.id = 2
  /\ client.phase = "resolved"
  /\ client.resolution[1].outcome = "wrong"
  /\ client.event.data[1].score = Some(1) /\ client.score = 1
  /\ client.clock = 120500

\* C36: with several guess-status requests in flight, no response makes checkResolution
\* throw, and a response with status resolved is applied only to the guess that its
\* request was made for.
C36_ResolutionOncePerRound ==
  [][/\ client'.event.name # "status_threw"
     /\ client'.event.name = "status_applied"
        => client.pendingGuess # Null /\ client.pendingGuess[1].id = client'.event.id]_vars

\* C37: the store holds a pending guess exactly in the phases 'guessing', 'waiting' and
\* 'validating'; in 'idle' and 'resolved' it holds none and no countdown is running.
C37_PendingIffRound ==
  /\ client.pendingGuess # Null <=> client.phase \in InRound
  /\ client.phase \in {"idle", "resolved"} => ~client.countdownTimer

\* back in 'idle' by a reset after the second round
C37_Witness ==
  /\ client.event.name = "reset"
  /\ client.phase = "idle"
  /\ client.issued = 2
  /\ client.pendingGuess = Null

\* C38: on mount with a player the store takes the score of the server; with a pending
\* guess it enters 'waiting' with secondsLeft 0 and no countdown if 60 s or more have
\* passed since guessed_at, and 'guessing' with secondsLeft the least whole number of
\* seconds not below 60 - elapsed and a running countdown otherwise; with no pending guess
\* it stays 'idle'.
C38_RestoreByElapsed ==
  [][client'.event.name = "mount" /\ client'.event.data # Null
     => LET data == client'.event.data[1] IN
        /\ client'.score = data.score
        /\ client'.playerId = data.id
        /\ IF data.pendingGuess = Null
             THEN /\ client'.phase = "idle"
                  /\ client'.pendingGuess = Null
                  /\ ~client'.countdownTimer
             ELSE LET elapsed == client.clock - data.pendingGuess[1].guessed_at * 1000 IN
                  /\ client'.pendingGuess # Null
                  /\ client'.pendingGuess[1].id = data.pendingGuess[1].id
                  /\ client'.entryPrice = data.pendingGuess[1].price_at_guess
                  /\ IF elapsed >= 60 * 1000
                       THEN /\ client'.phase = "waiting"
                            /\ client'.secondsLeft = 0
                            /\ ~client'.countdownTimer
                       ELSE /\ client'.phase = "guessing"
                            /\ client'.secondsLeft * 1000 >= 60 * 1000 - elapsed
                            /\ (client'.secondsLeft - 1) * 1000 < 60 * 1000 - elapsed
                            /\ client'.countdownTimer]_vars

\* a guess was restored half a second before the end of its round: one second is left
C38_Witness ==
  /\ client.event.name = "mount"
  /\ client.phase = "guessing"
  /\ client.clock = 59500
  /\ client.secondsLeft = 1
  /\ client.countdownTimer

\* C39: the phase changes only along idle -> guessing -> waiting or validating -> resolved
\* -> idle: to 'guessing' from 'idle' by a submit that succeeded or by the restore of the
\* mount; to 'waiting' or 'validating' from 'guessing' as the countdown reaches 0, or from
\* 'idle' by a restore 60 s or more after the guess; to 'resolved' from a round in
\* progress; to 'idle' from 'resolved' by a reset.
C39_PhaseCycle ==
  [][client'.phase # client.phase
     => \/ /\ client'.phase = "guessing" /\ client.phase = "idle"
           /\ client'.event.name \in {"submit_ok", "mount"}
        \/ /\ client'.phase \in {"waiting", "validating"} /\ client.phase = "guessing"
           /\ client'.event.name = "countdown" /\ client'.secondsLeft = 0
        \/ /\ client'.phase = "waiting" /\ client.phase = "idle"
           /\ client'.event.name = "mount"
           /\ client.clock - client'.pendingGuess[1].guessedAt >= 60 * 1000
        \/ /\ client'.phase = "resolved" /\ client.phase \in InRound
        \/ /\ client'.phase = "idle" /\ client.phase = "resolved"
           /\ client'.event.name = "reset"]_vars

\* the countdown of the second round reached 0 with the price a cent off the entry price:
\* the phase is 'validating'
C39_Witness ==
  /\ client.event.name = "countdown"
  /\ client.phase = "validating"
  /\ client.issued = 2
  /\ client.secondsLeft = 0

====
